---- MODULE Spec2Model ----
(***************************************************************************)
(* The blockbeat subsystem of lnd (package chainio): a Beat carrying one   *)
(* block epoch and a one-slot error channel, the BeatConsumer helper that  *)
(* hands a beat to its subsystem, Beat.DispatchSequential,                 *)
(* Beat.DispatchConcurrent and Beat.notifyAndWait, and the dispatcher that *)
(* drives every registered queue with each new block.                      *)
(*                                                                         *)
(* Time is counted in seconds and advances in steps of TickSeconds.        *)
(* A channel is named by the make() call that made it: the height of the   *)
(* beat, the goroutine and the number of its call (no call is run twice);  *)
(* its buffer is the sequence chanBuf[id].                                 *)
(***************************************************************************)
EXTENDS Integers, Sequences, FiniteSets, TLC

\* ------------------------------------------------------------------ bounds
NumConsumers == 3
NumNames == 2
MaxQueues == 2
MaxQueueLen == 2
MaxRegistered == 2
MaxListLen == 2
MaxHeight == 2
TickSeconds == 60
MaxAcks == 2
MaxInputs == 3

\* ------------------------------------------------------- program constants
\* var DefaultProcessBlockTimeout = 60 * time.Second
DefaultProcessBlockTimeout == 60

VARIABLES
    quit,           \* BeatConsumer.quit, per consumer: TRUE once closed
    currentBeat,    \* BeatConsumer.currentBeat, per consumer
    held,           \* the beat a subsystem read from BlockbeatChan and has not acked
    seen,           \* heights a subsystem has read from BlockbeatChan (history)
    chanBuf,        \* make(chan error, 1): the buffer of every channel made so far
    chanSent,       \* every value ever sent on a channel (history)
    task,           \* the dispatch goroutines: one per queue, or one per consumer
    log,            \* per goroutine, the notifyAndWait calls it made (history)
    dpc,            \* dispatcher main loop position ("direct": no dispatcher runs)
    consumerQueues, \* BlockbeatDispatcher.consumerQueues: queue id -> consumers
    height,         \* height of the last epoch taken from the block source
    beat,           \* the beat being dispatched (BlockbeatDispatcher.beat / receiver b)
    dresult,        \* result of the last notifyQueues
    dc,             \* the DispatchConcurrent call: its errChans map and wait loop
    pb,             \* per consumer, the call of the error-returning ProcessBlock
    nbp,            \* per consumer, the subsystem's NotifyBlockProcessed calls
    scan,           \* epoch.Block of the beat and the last block-scanning call on it
    cp,             \* the result of beat.copy() and what was published and read
    fsm             \* the RBF co-op close state machine and its last transition

vars == <<quit, currentBeat, held, seen, chanBuf, chanSent,
          task, log, dpc, consumerQueues, height, beat, dresult, dc, pb, nbp,
          scan, cp, fsm>>

Consumers == 1..NumConsumers

\* Consumer.Name(): names are not required to be unique.
Name(c) == ((c - 1) % NumNames) + 1

\* ------------------------------------------------------------------ errors
Nil == [kind |-> "nil", name |-> 0, cause |-> "nil"]
ErrDummy == [kind |-> "err", name |-> 0, cause |-> "errDummy"]
\* The values a subsystem may pass to NotifyBlockProcessed.
AckValues == {Nil, ErrDummy}

\* errors.Is(err, target) for the one-level wraps the package builds.
ErrorsIs(err, cause) == err # Nil /\ err.cause = cause

\* fmt.Errorf("%s: ProcessBlock got: %w", c.Name(), err)
WrapProcessBlock(c, err) ==
    [kind |-> "ProcessBlock got", name |-> Name(c), cause |-> err.cause]

\* fmt.Errorf("consumer %s: %w", c.Name(), ErrProcessBlockTimeout)
WrapTimeout(c) ==
    [kind |-> "consumer", name |-> Name(c), cause |-> "ErrProcessBlockTimeout"]

\* ------------------------------------------------------------------- beats
BlockEpoch(h) == [height |-> h]

\* make(chan error, 1) run by goroutine w (0: the owner of the dispatched
\* beat) for its k-th notifyAndWait on a beat of height h.
MakeChan(h, w, k) == <<h, w, k>>

NoChan == <<0, 0, 0>>

\* build.NewPrefixLog(fmt.Sprintf("Height[%6d]:", b.Height()), clog)
NewPrefixLog(h) == <<"Height", h>>

NoBeat == [epoch |-> BlockEpoch(-1), errChan |-> NoChan, log |-> <<>>]

\* NewBeat: the epoch and a fresh buffered channel ch.
NewBeat(epoch, ch) ==
    [epoch |-> epoch, errChan |-> ch, log |-> NewPrefixLog(epoch.height)]

Height(b) == b.epoch.height

\* notifyAndWait's beatCopy := NewBeat(b.epoch)
BeatCopyShared(b, ch) == b

BeatCopy(b, ch) == NewBeat(b.epoch, ch)

\* ---------------------------------------------------------------- channels
\* select { case beat.errChan <- nil: default: } on a channel of capacity 1
TrySendNilSkip(buf) == buf

TrySendNil(buf) == IF Len(buf) < 1 THEN Append(buf, Nil) ELSE buf

\* A send on the one-slot channel can proceed.
CanSendNever(buf) == FALSE

CanSendAlways(buf) == TRUE

CanSend(buf) == Len(buf) < 1

\* ------------------------------------------------- the dispatch goroutines
\* "call": about to call notifyAndWait on consumers[idx]; "send": inside
\* ProcessBlock, blocked in its select; "wait": in notifyAndWait's select;
\* "done": the goroutine's function returned result.
Pending == [kind |-> "pending", name |-> 0, cause |-> "pending"]

NewTask(cs) ==
    [pc |-> IF Len(cs) = 0 THEN "done" ELSE "call", consumers |-> cs, idx |-> 1,
     copy |-> NoBeat, blocked |-> 0, timer |-> 0, result |-> Nil]

CurConsumer(w) == task[w].consumers[task[w].idx]

\* notifyAndWait, case err := <-c.ProcessBlock(beatCopy)
AckResultDropErr(c, err) == Nil

AckResult(c, err) == IF err = Nil THEN Nil ELSE WrapProcessBlock(c, err)

\* notifyAndWait, case <-time.After(DefaultProcessBlockTimeout)
TimerExpiredAtOnce(timer) == TRUE

TimerExpired(timer) == timer >= DefaultProcessBlockTimeout

TimeoutResultNil(c) == Nil

TimeoutResult(c) == WrapTimeout(c)

\* DispatchSequential's loop after notifyAndWait(consumers[i]) returned err,
\* n = len(consumers): return err, return nil, or go on with consumers[i+1].
SeqAfterContinue(err, i, n) ==
    IF i = n THEN [done |-> TRUE, result |-> Nil, idx |-> i]
    ELSE [done |-> FALSE, result |-> Nil, idx |-> i + 1]

SeqAfter(err, i, n) ==
    IF err # Nil THEN [done |-> TRUE, result |-> err, idx |-> i]
    ELSE IF i = n THEN [done |-> TRUE, result |-> Nil, idx |-> i]
    ELSE [done |-> FALSE, result |-> Nil, idx |-> i + 1]

\* The goroutines are the ones DispatchConcurrent started.
IsWorker == dc.pc \in {"range", "returned"}

\* errChan := make(chan error, 1) in the loop iteration that starts goroutine w.
ResultChan(w) == MakeChan(Height(beat), w, 0)

\* A goroutine that sends on the map entry of its consumer's name.
SendsOnMapEntry(w) == ResultChan(dc.errChans[Name(dc.consumers[w])])

\* errChan <- b.notifyAndWait(c): the errChan the closure captured.
SendsOn(w) == ResultChan(w)

\* The channel buffers after a goroutine of DispatchConcurrent whose
\* notifyAndWait returned res has sent it; nothing is sent on a full channel.
SendResult(bufs, w, res) ==
    IF IsWorker /\ CanSend(chanBuf[SendsOn(w)])
    THEN [bufs EXCEPT ![SendsOn(w)] = Append(@, res)]
    ELSE bufs

\* The goroutine's state after its current notifyAndWait returned res: the
\* loop of DispatchSequential goes on or returns; a goroutine of
\* DispatchConcurrent is done once its send went through ("blocked" until
\* then).
Finish(w, res) ==
    LET nxt == SeqAfter(res, task[w].idx, Len(task[w].consumers))
    IN  [task EXCEPT ![w].pc = IF ~nxt.done THEN "call"
                               ELSE IF IsWorker
                                       /\ ~CanSend(chanBuf[SendsOn(w)])
                               THEN "blocked"
                               ELSE "done",
                     ![w].idx = nxt.idx,
                     ![w].result = nxt.result]

LogResult(w, recv, res) ==
    [log EXCEPT ![w][Len(log[w])].recv = recv, ![w][Len(log[w])].result = res]

\* BeatConsumer.ProcessBlock, case <-b.quit
QuitReadyAlways(c) == TRUE

QuitReady(c) == quit[c]

\* A helper that leaves the recording of the beat to the hand-off.
setCurrentBeatSkip(c, b) == currentBeat

\* b.setCurrentBeat(beat) / b.currentBeat = beat: the first statement of
\* ProcessBlock in both helpers.
setCurrentBeat(c, b) == [currentBeat EXCEPT ![c] = b]

\* notifyAndWait up to the point where ProcessBlock blocks: beatCopy :=
\* NewBeat(b.epoch); c.ProcessBlock(beatCopy) runs setCurrentBeat and enters
\* its select.
NotifyAndWait(w) ==
    /\ task[w].pc = "call"
    /\ LET c == CurConsumer(w)
           ch == MakeChan(Height(beat), w, task[w].idx)
           beatCopy == BeatCopy(beat, ch)
       IN  /\ chanBuf' = chanBuf @@ (ch :> <<>>)
           /\ chanSent' = chanSent @@ (ch :> <<>>)
           /\ currentBeat' = setCurrentBeat(c, beatCopy)
           /\ task' = [task EXCEPT ![w].pc = "send", ![w].copy = beatCopy,
                                   ![w].blocked = 0, ![w].timer = 0]
           /\ log' = [log EXCEPT ![w] = Append(@,
                        [consumer |-> c, copy |-> beatCopy, handed |-> FALSE,
                         recv |-> Pending, result |-> Pending])]
    /\ UNCHANGED <<quit, held, seen, dpc, consumerQueues, height, beat,
                   dresult, dc, pb, nbp, scan, cp, fsm>>

\* ProcessBlock, case b.BlockbeatChan <- beat: the subsystem's loop receives
\* the beat; ProcessBlock returns beat.errChan and notifyAndWait starts the
\* timer and waits.
SendBeat(w) ==
    /\ task[w].pc = "send"
    /\ LET c == CurConsumer(w)
       IN  /\ held[c] = NoBeat
           /\ held' = [held EXCEPT ![c] = task[w].copy]
           /\ seen' = [seen EXCEPT ![c] = @ \cup {Height(task[w].copy)}]
    /\ task' = [task EXCEPT ![w].pc = "wait", ![w].blocked = 0, ![w].timer = 0]
    /\ log' = [log EXCEPT ![w][Len(log[w])].handed = TRUE]
    /\ UNCHANGED <<quit, currentBeat, chanBuf, chanSent, dpc, consumerQueues,
                   height, beat, dresult, dc, pb, nbp, scan, cp, fsm>>

\* A helper that reads quit during the wait for the acknowledgement as well,
\* and writes nil on beat.errChan there too.
QuitAlsoInWait(w) ==
    /\ task[w].pc \in {"send", "wait"}
    /\ QuitReady(CurConsumer(w))
    /\ LET ch == task[w].copy.errChan
       IN  /\ chanBuf' = [chanBuf EXCEPT ![ch] = TrySendNil(@)]
           /\ chanSent' = [chanSent EXCEPT ![ch] =
                             IF CanSend(chanBuf[ch]) THEN Append(@, Nil) ELSE @]
    /\ task' = [task EXCEPT ![w].pc = "wait"]
    /\ UNCHANGED <<quit, currentBeat, held, seen, log, dpc, consumerQueues,
                   height, beat, dresult, dc, pb, nbp, scan, cp, fsm>>

\* ProcessBlock, case <-b.quit: a non-blocking send of nil on beat.errChan,
\* then return beat.errChan.
QuitBeforeSend(w) ==
    /\ task[w].pc = "send"
    /\ QuitReady(CurConsumer(w))
    /\ LET ch == task[w].copy.errChan
       IN  /\ chanBuf' = [chanBuf EXCEPT ![ch] = TrySendNil(@)]
           /\ chanSent' = [chanSent EXCEPT ![ch] =
                             IF CanSend(chanBuf[ch]) THEN Append(@, Nil) ELSE @]
    /\ task' = [task EXCEPT ![w].pc = "wait", ![w].blocked = 0, ![w].timer = 0]
    /\ UNCHANGED <<quit, currentBeat, held, seen, log, dpc, consumerQueues,
                   height, beat, dresult, dc, pb, nbp, scan, cp, fsm>>

\* notifyAndWait's select takes the value on the channel ProcessBlock returned.
RecvAck(w) ==
    /\ task[w].pc = "wait"
    /\ LET ch == task[w].copy.errChan
           err == Head(chanBuf[ch])
           res == AckResult(CurConsumer(w), err)
       IN  /\ chanBuf[ch] # <<>>
           /\ chanBuf' = SendResult([chanBuf EXCEPT ![ch] = Tail(@)], w, res)
           /\ chanSent' = SendResult(chanSent, w, res)
           /\ log' = LogResult(w, err, res)
           /\ task' = Finish(w, res)
    /\ UNCHANGED <<quit, currentBeat, held, seen, dpc,
                   consumerQueues, height, beat, dresult, dc, pb, nbp, scan,
                   cp, fsm>>

\* notifyAndWait's select takes the timer.
Timeout(w) ==
    /\ task[w].pc = "wait"
    /\ TimerExpired(task[w].timer)
    /\ LET res == TimeoutResult(CurConsumer(w))
       IN  /\ chanBuf' = SendResult(chanBuf, w, res)
           /\ chanSent' = SendResult(chanSent, w, res)
           /\ log' = LogResult(w, Pending, res)
           /\ task' = Finish(w, res)
    /\ UNCHANGED <<quit, currentBeat, held, seen, dpc,
                   consumerQueues, height, beat, dresult, dc, pb, nbp, scan,
                   cp, fsm>>

\* Time passes for every goroutine inside notifyAndWait: blocked counts the
\* seconds spent inside ProcessBlock (kept up to the first value beyond the
\* timeout), timer the seconds since time.After. A select with a ready case
\* proceeds at once: an expired timer is served, and an ack that lies in the
\* channel is taken, before more time passes.
Tick ==
    /\ \E w \in DOMAIN task :
          \/ task[w].pc = "wait"
          \/ task[w].pc = "send" /\ task[w].blocked <= DefaultProcessBlockTimeout
    /\ \A w \in DOMAIN task : task[w].pc = "wait" =>
          /\ ~TimerExpired(task[w].timer)
          /\ chanBuf[task[w].copy.errChan] = <<>>
    /\ task' = [w \in DOMAIN task |->
                  IF task[w].pc = "wait"
                  THEN [task[w] EXCEPT !.timer = @ + TickSeconds]
                  ELSE IF task[w].pc = "send"
                          /\ task[w].blocked <= DefaultProcessBlockTimeout
                  THEN [task[w] EXCEPT !.blocked = @ + TickSeconds]
                  ELSE task[w]]
    /\ UNCHANGED <<quit, currentBeat, held, seen, chanBuf, chanSent, log, dpc,
                   consumerQueues, height, beat, dresult, dc, pb, nbp, scan,
                   cp, fsm>>

\* ------------------------------------------------------------ the subsystem
\* Beat.NotifyBlockProcessed(err, quit) = fn.SendOrQuit(b.errChan, err, quit),
\* called by the subsystem on the beat it holds.
NotifyBlockProcessed(c, err) ==
    /\ held[c] # NoBeat
    /\ LET ch == held[c].errChan
       IN  \/ /\ CanSend(chanBuf[ch])
              /\ chanBuf' = [chanBuf EXCEPT ![ch] = Append(@, err)]
              /\ chanSent' = [chanSent EXCEPT ![ch] = Append(@, err)]
           \/ /\ quit[c]
              /\ UNCHANGED <<chanBuf, chanSent>>
    /\ held' = [held EXCEPT ![c] = NoBeat]
    /\ UNCHANGED <<quit, currentBeat, seen, task, log, dpc, consumerQueues,
                   height, beat, dresult, dc, pb, nbp, scan, cp, fsm>>

\* The consumers the running dispatch knows, and every consumer whose
\* ProcessBlock was called directly.
Participants ==
    UNION {{task[w].consumers[i] : i \in 1..Len(task[w].consumers)} :
             w \in DOMAIN task}
        \cup {c \in Consumers : pb[c].pc # "idle"}

\* The subsystem shuts down: close(quit).
CloseQuit(c) ==
    /\ c \in Participants
    /\ ~quit[c]
    /\ quit' = [quit EXCEPT ![c] = TRUE]
    /\ UNCHANGED <<currentBeat, held, seen, chanBuf, chanSent, task, log, dpc,
                   consumerQueues, height, beat, dresult, dc, pb, nbp, scan,
                   cp, fsm>>

\* ----------------------------------------------------------- the dispatcher
\* The consumers not yet placed in a queue; consumers are numbered in the
\* order of their registration.
Registered == UNION {{consumerQueues[q][i] : i \in 1..Len(consumerQueues[q])} :
                       q \in DOMAIN consumerQueues}

\* The registry after a queue was installed under the next queue id, counted
\* from 1.
InstallQueueOverwrite(queues, q) ==
    IF queues = <<>> THEN <<q>> ELSE [queues EXCEPT ![Len(queues)] = q]

InstallQueue(queues, q) == Append(queues, q)

\* RegisterQueue(consumers): the queue gets the next queue id, counted from 1.
RegisterQueue(n) ==
    /\ dpc = "init"
    /\ Len(consumerQueues) < MaxQueues
    /\ Cardinality(Registered) + n <= MaxRegistered
    /\ LET first == Cardinality(Registered)
       IN  consumerQueues' =
               InstallQueue(consumerQueues, [i \in 1..n |-> first + i])
    /\ UNCHANGED <<quit, currentBeat, held, seen, chanBuf, chanSent, task,
                   log, dpc, height, beat, dresult, dc, pb, nbp, scan, cp,
                   fsm>>

\* Start(): the main loop begins to read the block source.
Start ==
    /\ dpc = "init"
    /\ dpc' = "idle"
    /\ UNCHANGED <<quit, currentBeat, held, seen, chanBuf, chanSent, task,
                   log, consumerQueues, height, beat, dresult, dc, pb, nbp,
                   scan, cp, fsm>>

\* The main loop is back at its read of the block source.
AcceptsEpochEarly == dpc \in {"idle", "notify"}

AcceptsEpochAfterError == dpc \in {"idle", "stopped"}

AcceptsEpoch == dpc = "idle"

\* Main loop: the next epoch arrives; beat := NewBeat(epoch) becomes the
\* current beat and notifyQueues starts one DispatchSequential task per queue.
\* notifyQueues starts the queues one after the other: only the first queue's
\* goroutine exists, the others wait for their turn.
StartQueuesInTurn(queues) ==
    [q \in DOMAIN queues |->
        IF q = 1 THEN NewTask(queues[q])
        ELSE [NewTask(queues[q]) EXCEPT !.pc = "queued"]]

\* notifyQueues: one goroutine per queue, all started with the same beat.
StartQueues(queues) == [q \in DOMAIN queues |-> NewTask(queues[q])]

NextEpoch ==
    /\ AcceptsEpoch
    /\ height < MaxHeight
    /\ height' = height + 1
    /\ beat' = NewBeat(BlockEpoch(height + 1), MakeChan(height + 1, 0, 0))
    /\ chanBuf' = chanBuf @@ (MakeChan(height + 1, 0, 0) :> <<>>)
    /\ chanSent' = chanSent @@ (MakeChan(height + 1, 0, 0) :> <<>>)
    /\ task' = StartQueues(consumerQueues)
    /\ log' = [q \in DOMAIN consumerQueues |-> <<>>]
    /\ dpc' = "notify"
    /\ UNCHANGED <<quit, currentBeat, held, seen, consumerQueues, dresult, dc,
                   pb, nbp, scan, cp, fsm>>

\* The error notifyQueues reports for queue q.
WrapQueueDropErr(q, err) == Nil

WrapQueue(q, err) == [kind |-> "queue", name |-> q, cause |-> err.cause]

\* notifyQueues may return: every queue's task has reported.
QueuesReportedAny == \E q \in DOMAIN task : task[q].pc = "done"

QueuesReported == \A q \in DOMAIN task : task[q].pc = "done"

\* notifyQueues returns: nil when every queue reported nil, otherwise the error
\* of one failing queue, on which the main loop stops.
NotifyQueuesReturn ==
    /\ dpc = "notify"
    /\ QueuesReported
    /\ \/ /\ \A q \in DOMAIN task : task[q].pc = "done" => task[q].result = Nil
          /\ dresult' = Nil
          /\ dpc' = "idle"
       \/ \E q \in DOMAIN task :
             /\ task[q].pc = "done"
             /\ task[q].result # Nil
             /\ dresult' = WrapQueue(q, task[q].result)
             /\ dpc' = "stopped"
    /\ UNCHANGED <<quit, currentBeat, held, seen, chanBuf, chanSent, task,
                   log, consumerQueues, height, beat, dc, pb, nbp, scan, cp,
                   fsm>>

\* ------------------------------- DispatchSequential and DispatchConcurrent
\* Lists of distinct consumers, of every length up to MaxListLen. Consumers
\* differ in nothing but their names, so the lists are taken in increasing
\* order of the consumers' numbers.
ConsumerLists ==
    UNION {{cs \in [1..n -> Consumers] :
              \A i, j \in 1..n : i < j => cs[i] < cs[j]} : n \in 0..MaxListLen}

Names(cs) == {Name(cs[i]) : i \in 1..Len(cs)}

DistinctNames(cs) == \A i, j \in 1..Len(cs) : i # j => Name(cs[i]) # Name(cs[j])

\* errChans[c.Name()] = errChan, assigned in list order: a later consumer of
\* the same name replaces the entry. A channel is named by the index of the
\* goroutine that writes to it.
ErrChans(cs) ==
    [nm \in Names(cs) |->
        CHOOSE i \in 1..Len(cs) :
            /\ Name(cs[i]) = nm
            /\ \A j \in 1..Len(cs) : Name(cs[j]) = nm => j <= i]

NoDC == [pc |-> "none", consumers |-> <<>>, errChans |-> <<>>, pending |-> {},
         cur |-> 0, result |-> Nil]

\* b.DispatchSequential(cs), called directly: the caller runs the loop itself
\* (task 1) and the call has returned once that task is done.
DispatchSequential(cs) ==
    /\ dpc = "direct"
    /\ dc.pc = "none"
    /\ dc' = [NoDC EXCEPT !.pc = "seq", !.consumers = cs]
    /\ task' = <<NewTask(cs)>>
    /\ log' = <<<<>>>>
    /\ UNCHANGED <<quit, currentBeat, held, seen, chanBuf, chanSent, dpc,
                   consumerQueues, height, beat, dresult, pb, nbp, scan, cp,
                   fsm>>

\* DispatchConcurrent's first loop: one channel and one goroutine per consumer.
DispatchConcurrent(cs) ==
    /\ dpc = "direct"
    /\ dc.pc = "none"
    /\ dc' = [pc |-> IF Names(cs) = {} THEN "returned" ELSE "range",
              consumers |-> cs, errChans |-> ErrChans(cs),
              pending |-> Names(cs), cur |-> 0, result |-> Nil]
    /\ task' = [i \in 1..Len(cs) |-> NewTask(<<cs[i]>>)]
    /\ log' = [i \in 1..Len(cs) |-> <<>>]
    /\ chanBuf' = chanBuf @@ [ch \in {ResultChan(i) : i \in 1..Len(cs)} |-> <<>>]
    /\ chanSent' =
          chanSent @@ [ch \in {ResultChan(i) : i \in 1..Len(cs)} |-> <<>>]
    /\ UNCHANGED <<quit, currentBeat, held, seen, dpc,
                   consumerQueues, height, beat, dresult, pb, nbp, scan, cp,
                   fsm>>

\* The second loop, for name, errChan := range errChans: the next map entry,
\* in no particular order.
ConcRange(nm) ==
    /\ dc.pc = "range"
    /\ dc.cur = 0
    /\ nm \in dc.pending
    /\ dc' = [dc EXCEPT !.cur = nm]
    /\ UNCHANGED <<quit, currentBeat, held, seen, chanBuf, chanSent, task,
                   log, dpc, consumerQueues, height, beat, dresult, pb, nbp,
                   scan, cp, fsm>>

\* The loop body after err := <-errChan, rest = the entries not yet visited:
\* return err, return nil, or go on.
ConcAfterIgnoreErr(err, rest) ==
    IF rest = {} THEN [done |-> TRUE, result |-> Nil]
    ELSE [done |-> FALSE, result |-> Nil]

\* A wait loop that never leaves after the last entry.
ConcAfterNeverDone(err, rest) == [done |-> FALSE, result |-> Nil]

ConcAfter(err, rest) ==
    IF err # Nil THEN [done |-> TRUE, result |-> err]
    ELSE IF rest = {} THEN [done |-> TRUE, result |-> Nil]
    ELSE [done |-> FALSE, result |-> Nil]

\* err := <-errChan: the goroutine behind the entry has sent its result.
ConcRecv ==
    /\ dc.pc = "range"
    /\ dc.cur # 0
    /\ LET ch == ResultChan(dc.errChans[dc.cur])
           rest == dc.pending \ {dc.cur}
           nxt == ConcAfter(Head(chanBuf[ch]), rest)
       IN  /\ chanBuf[ch] # <<>>
           /\ chanBuf' = [chanBuf EXCEPT ![ch] = Tail(@)]
           /\ dc' = [dc EXCEPT !.pc = IF nxt.done THEN "returned" ELSE "range",
                               !.pending = rest, !.cur = 0,
                               !.result = nxt.result]
    /\ UNCHANGED <<quit, currentBeat, held, seen, chanSent, task,
                   log, dpc, consumerQueues, height, beat, dresult, pb, nbp,
                   scan, cp, fsm>>

\* ------------------- ProcessBlock returning an error; NotifyBlockProcessed
\* No ProcessBlock call, no NotifyBlockProcessed call.
NoCall == [pc |-> "idle", beat |-> NoBeat, got |-> NoBeat, result |-> Pending]

NoAck == [pc |-> "none", err |-> Nil, useQuit |-> FALSE, sent |-> FALSE,
          calls |-> 0]

\* What ProcessBlock returns from the case its select took: the value read
\* from the beat's channel, or nil on quit.
ProcessBlockResultNil(case, err) == Nil

ProcessBlockResultErrOnQuit(case, err) == IF case = "ack" THEN err ELSE ErrDummy

ProcessBlockResult(case, err) == IF case = "ack" THEN err ELSE Nil

\* b.ProcessBlock(beat) is called with a beat of height h: b.currentBeat =
\* beat, then the first select. One call is followed per run.
ProcessBlock(c, h) ==
    /\ dpc = "consumer"
    /\ \A d \in Consumers : pb[d].pc = "idle"
    /\ LET b == NewBeat(BlockEpoch(h), MakeChan(h, c, 1))
       IN  /\ chanBuf' = chanBuf @@ (b.errChan :> <<>>)
           /\ chanSent' = chanSent @@ (b.errChan :> <<>>)
           /\ currentBeat' = setCurrentBeat(c, b)
           /\ pb' = [pb EXCEPT ![c] = [NoCall EXCEPT !.pc = "send", !.beat = b]]
    /\ UNCHANGED <<quit, held, seen, task, log, dpc, consumerQueues, height,
                   beat, dresult, dc, nbp, scan, cp, fsm>>

\* case b.BlockbeatChan <- beat: the subsystem receives the beat and
\* ProcessBlock goes on to its second select.
ProcessBlockSend(c) ==
    /\ pb[c].pc = "send"
    /\ held[c] = NoBeat
    /\ held' = [held EXCEPT ![c] = pb[c].beat]
    /\ seen' = [seen EXCEPT ![c] = @ \cup {Height(pb[c].beat)}]
    /\ pb' = [pb EXCEPT ![c].pc = "ack", ![c].got = pb[c].beat]
    /\ UNCHANGED <<quit, currentBeat, chanBuf, chanSent, task, log, dpc,
                   consumerQueues, height, beat, dresult, dc, nbp, scan, cp,
                   fsm>>

\* First select, case <-b.quit: return nil.
ProcessBlockQuitBeforeSend(c) ==
    /\ pb[c].pc = "send"
    /\ QuitReady(c)
    /\ pb' = [pb EXCEPT ![c].pc = "returned",
                        ![c].result = ProcessBlockResult("quit", Nil)]
    /\ UNCHANGED <<quit, currentBeat, held, seen, chanBuf, chanSent, task,
                   log, dpc, consumerQueues, height, beat, dresult, dc, nbp,
                   scan, cp, fsm>>

\* Second select, case err := <-beat.errChan(): return err.
ProcessBlockAck(c) ==
    /\ pb[c].pc = "ack"
    /\ LET ch == pb[c].beat.errChan
       IN  /\ chanBuf[ch] # <<>>
           /\ chanBuf' = [chanBuf EXCEPT ![ch] = Tail(@)]
           /\ pb' = [pb EXCEPT ![c].pc = "returned",
                        ![c].result = ProcessBlockResult("ack", Head(chanBuf[ch]))]
    /\ UNCHANGED <<quit, currentBeat, held, seen, chanSent, task, log, dpc,
                   consumerQueues, height, beat, dresult, dc, nbp, scan, cp,
                   fsm>>

\* Second select, case <-b.quit: return nil.
ProcessBlockQuitAfterSend(c) ==
    /\ pb[c].pc = "ack"
    /\ QuitReady(c)
    /\ pb' = [pb EXCEPT ![c].pc = "returned",
                        ![c].result = ProcessBlockResult("quit", Nil)]
    /\ UNCHANGED <<quit, currentBeat, held, seen, chanBuf, chanSent, task,
                   log, dpc, consumerQueues, height, beat, dresult, dc, nbp,
                   scan, cp, fsm>>

\* The subsystem calls beat.NotifyBlockProcessed(err, quitChan) on the beat
\* it received, with its quit channel or with nil (useQuit = FALSE), and
\* enters the select of fn.SendOrQuit; it may call more than once.
NotifyBlockProcessedCall(c, err, useQuit) ==
    /\ dpc = "consumer"
    /\ held[c] # NoBeat
    /\ nbp[c].pc # "select"
    /\ nbp[c].calls < MaxAcks
    /\ nbp' = [nbp EXCEPT ![c] = [pc |-> "select", err |-> err,
                                  useQuit |-> useQuit, sent |-> FALSE,
                                  calls |-> nbp[c].calls + 1]]
    /\ UNCHANGED <<quit, currentBeat, held, seen, chanBuf, chanSent, task,
                   log, dpc, consumerQueues, height, beat, dresult, dc, pb,
                   scan, cp, fsm>>

\* fn.SendOrQuit, case b.errChan <- err.
SendOrQuitSend(c) ==
    /\ nbp[c].pc = "select"
    /\ LET ch == held[c].errChan
       IN  /\ CanSend(chanBuf[ch])
           /\ chanBuf' = [chanBuf EXCEPT ![ch] = Append(@, nbp[c].err)]
           /\ chanSent' = [chanSent EXCEPT ![ch] = Append(@, nbp[c].err)]
    /\ nbp' = [nbp EXCEPT ![c].pc = "returned", ![c].sent = TRUE]
    /\ UNCHANGED <<quit, currentBeat, held, seen, task, log, dpc,
                   consumerQueues, height, beat, dresult, dc, pb, scan, cp,
                   fsm>>

\* fn.SendOrQuit, case <-quitChan: a nil quitChan is never ready.
SendOrQuitQuit(c) ==
    /\ nbp[c].pc = "select"
    /\ nbp[c].useQuit
    /\ quit[c]
    /\ nbp' = [nbp EXCEPT ![c].pc = "returned"]
    /\ UNCHANGED <<quit, currentBeat, held, seen, chanBuf, chanSent, task,
                   log, dpc, consumerQueues, height, beat, dresult, dc, pb,
                   scan, cp, fsm>>

\* ------------------------------------------------ block-scanning helpers
\* wire.OutPoint values.
Outpoints == {"op1", "op2"}

\* txscript.PkScript values that are queried, and their script class.
PkScripts == {"p2wkh", "p2wsh", "p2tr"}

WitnessV1TaprootTy == "witness_v1_taproot"

Class(pkScript) ==
    IF pkScript = "p2tr" THEN WitnessV1TaprootTy ELSE "witness_v0"

\* The signature script and witness an input carries.
Witnesses == {"sig,pubkey", "stack,script", "schnorrsig", "empty"}

ErrUnsupportedScriptType ==
    [kind |-> "err", name |-> 0, cause |-> "unsupported script type"]

\* txscript.ComputePkScript(sigScript, witness): the script is rebuilt from
\* the last witness item; it cannot be rebuilt for an input without data, and
\* a taproot key spend yields the hash of its signature, not a taproot script.
ComputePkScript(w) ==
    CASE w = "sig,pubkey" -> [script |-> "p2wkh", err |-> Nil]
      [] w = "stack,script" -> [script |-> "p2wsh", err |-> Nil]
      [] w = "schnorrsig" -> [script |-> "p2wsh(sig)", err |-> Nil]
      [] OTHER -> [script |-> "", err |-> ErrUnsupportedScriptType]

\* wire.TxIn; a wire.MsgTx is a sequence of inputs, a block a sequence of
\* transactions.
TxIns == [PreviousOutPoint : Outpoints, Witness : Witnesses]

RECURSIVE NumTxIns(_)
NumTxIns(block) ==
    IF block = <<>> THEN 0 ELSE Len(Head(block)) + NumTxIns(Tail(block))

\* tx.TxHash()
TxHash(tx) == <<"txid", tx>>

ErrPkScriptMismatch ==
    [kind |-> "err", name |-> 0, cause |-> "pkscript mismatch"]

\* fmt.Errorf("%w: want %v, got %v", ErrPkScriptMismatch, pkScript, script)
WrapPkScriptMismatch(pkScript, script) ==
    [kind |-> "want/got", name |-> <<pkScript, script>>,
     cause |-> ErrPkScriptMismatch.cause]

\* A nil *chainntnfs.SpendDetail.
NoDetail ==
    [SpentOutPoint |-> "", SpenderTxHash |-> <<>>, SpendingTx |-> 0,
     SpenderInputIndex |-> 0, SpendingHeight |-> 0]

\* &chainntnfs.SpendDetail{...} for input i (counted from 1 here, from 0 in
\* the code) of the t-th transaction; SpendingTx points to that transaction.
SpendDetail(block, h, t, i, outpoint) ==
    [SpentOutPoint |-> outpoint, SpenderTxHash |-> TxHash(block[t]),
     SpendingTx |-> t, SpenderInputIndex |-> i - 1, SpendingHeight |-> h]

\* A scan that keeps the last input that spends the outpoint.
HasOutpointSpentLast(block, h, outpoint) ==
    LET S == {x \in (1..Len(block)) \X (1..NumTxIns(block)) :
                 /\ x[2] <= Len(block[x[1]])
                 /\ block[x[1]][x[2]].PreviousOutPoint = outpoint}
    IN  IF S = {} THEN NoDetail
        ELSE LET x == CHOOSE y \in S :
                        \A z \in S : z[1] < y[1] \/ (z[1] = y[1] /\ z[2] <= y[2])
             IN  SpendDetail(block, h, x[1], x[2], outpoint)

\* The two loops of HasOutpointSpent, from input i of transaction t on.
RECURSIVE ScanOutpoint(_, _, _, _, _)
ScanOutpoint(block, h, outpoint, t, i) ==
    IF t > Len(block) THEN NoDetail
    ELSE IF i > Len(block[t]) THEN ScanOutpoint(block, h, outpoint, t + 1, 1)
    ELSE IF block[t][i].PreviousOutPoint # outpoint
         THEN ScanOutpoint(block, h, outpoint, t, i + 1)
    ELSE SpendDetail(block, h, t, i, outpoint)

\* b.HasOutpointSpent(outpoint) on a beat of height h with epoch.Block block.
HasOutpointSpent(block, h, outpoint) == ScanOutpoint(block, h, outpoint, 1, 1)

\* isTaproot := pkScript.Class() == txscript.WitnessV1TaprootTy
IsTaprootNever(pkScript) == FALSE

IsTaproot(pkScript) == Class(pkScript) = WitnessV1TaprootTy

\* script != pkScript
ScriptDiffersNever(script, pkScript) == FALSE

ScriptDiffers(script, pkScript) == script # pkScript

\* A closure that passes over an input whose script differs.
MatchTxInSkip(txIn, outpoint, pkScript) ==
    [found |-> /\ txIn.PreviousOutPoint = outpoint
               /\ ComputePkScript(txIn.Witness).script = pkScript,
     err |-> Nil]

\* The closure matchTxIn.
MatchTxIn(txIn, outpoint, pkScript) ==
    IF txIn.PreviousOutPoint # outpoint THEN [found |-> FALSE, err |-> Nil]
    ELSE IF IsTaproot(pkScript) THEN [found |-> TRUE, err |-> Nil]
    ELSE LET r == ComputePkScript(txIn.Witness)
         IN  IF r.err # Nil THEN [found |-> FALSE, err |-> r.err]
             ELSE IF ScriptDiffers(r.script, pkScript)
                  THEN [found |-> FALSE,
                        err |-> WrapPkScriptMismatch(pkScript, r.script)]
             ELSE [found |-> TRUE, err |-> Nil]

\* The two loops of HasOutpointSpentByScript, from input i of transaction t.
RECURSIVE ScanByScript(_, _, _, _, _, _)
ScanByScript(block, h, outpoint, pkScript, t, i) ==
    IF t > Len(block) THEN [detail |-> NoDetail, err |-> Nil]
    ELSE IF i > Len(block[t])
         THEN ScanByScript(block, h, outpoint, pkScript, t + 1, 1)
    ELSE LET m == MatchTxIn(block[t][i], outpoint, pkScript)
         IN  IF m.err # Nil THEN [detail |-> NoDetail, err |-> m.err]
             ELSE IF ~m.found
                  THEN ScanByScript(block, h, outpoint, pkScript, t, i + 1)
             ELSE [detail |-> SpendDetail(block, h, t, i, outpoint),
                   err |-> Nil]

\* b.HasOutpointSpentByScript(outpoint, pkScript)
HasOutpointSpentByScript(block, h, outpoint, pkScript) ==
    ScanByScript(block, h, outpoint, pkScript, 1, 1)

\* No block-scanning call yet on a beat whose block has no transaction.
NoScan ==
    [pc |-> "block", block |-> <<>>, fn |-> "none", outpoint |-> "",
     pkScript |-> "", detail |-> NoDetail, err |-> Nil]

\* The block of the beat's epoch gets one more transaction, with one input.
AddTx(txIn) ==
    /\ dpc = "scan"
    /\ scan.pc = "block"
    /\ NumTxIns(scan.block) < MaxInputs
    /\ scan' = [scan EXCEPT !.block = Append(@, <<txIn>>)]
    /\ UNCHANGED <<quit, currentBeat, held, seen, chanBuf, chanSent, task,
                   log, dpc, consumerQueues, height, beat, dresult, dc, pb,
                   nbp, cp, fsm>>

\* The last transaction of the block gets one more input.
AddTxIn(txIn) ==
    /\ dpc = "scan"
    /\ scan.pc = "block"
    /\ scan.block # <<>>
    /\ NumTxIns(scan.block) < MaxInputs
    /\ scan' = [scan EXCEPT !.block[Len(scan.block)] = Append(@, txIn)]
    /\ UNCHANGED <<quit, currentBeat, held, seen, chanBuf, chanSent, task,
                   log, dpc, consumerQueues, height, beat, dresult, dc, pb,
                   nbp, cp, fsm>>

\* A subsystem calls beat.HasOutpointSpent(outpoint).
CallHasOutpointSpent(outpoint) ==
    /\ dpc = "scan"
    /\ scan.pc = "block"
    /\ scan' = [scan EXCEPT
                  !.pc = "returned", !.fn = "HasOutpointSpent",
                  !.outpoint = outpoint,
                  !.detail = HasOutpointSpent(scan.block, Height(beat),
                                              outpoint)]
    /\ UNCHANGED <<quit, currentBeat, held, seen, chanBuf, chanSent, task,
                   log, dpc, consumerQueues, height, beat, dresult, dc, pb,
                   nbp, cp, fsm>>

\* A subsystem calls beat.HasOutpointSpentByScript(outpoint, pkScript).
CallHasOutpointSpentByScript(outpoint, pkScript) ==
    /\ dpc = "scan"
    /\ scan.pc = "block"
    /\ LET r == HasOutpointSpentByScript(scan.block, Height(beat), outpoint,
                                         pkScript)
       IN  scan' = [scan EXCEPT
                      !.pc = "returned", !.fn = "HasOutpointSpentByScript",
                      !.outpoint = outpoint, !.pkScript = pkScript,
                      !.detail = r.detail, !.err = r.err]
    /\ UNCHANGED <<quit, currentBeat, held, seen, chanBuf, chanSent, task,
                   log, dpc, consumerQueues, height, beat, dresult, dc, pb,
                   nbp, cp, fsm>>

\* ------------------------------------------------------------- Beat.copy
\* No copy made, nothing published, nothing read.
NoCopy ==
    [copy |-> NoBeat, full |-> FALSE,
     pub |-> [orig |-> <<>>, copy |-> <<>>],
     read |-> [orig |-> <<>>, copy |-> <<>>]]

\* A copy that is the original itself.
copyShared(b, ch) == b

\* b.copy(): &Beat{epoch: b.epoch, errorChan: make(chan error, 1), log: b.log}
copy(b, ch) == [epoch |-> b.epoch, errChan |-> ch, log |-> b.log]

\* The beat a call is made on: the original or its copy.
Target(which) == IF which = "orig" THEN beat ELSE cp.copy

\* beatCopy := beat.copy(); full records whether the original's channel held
\* a value at that moment.
CopyBeat ==
    /\ dpc = "copy"
    /\ cp.copy = NoBeat
    /\ LET ch == MakeChan(Height(beat), 0, 1)
       IN  /\ chanBuf' = chanBuf @@ (ch :> <<>>)
           /\ chanSent' = chanSent @@ (ch :> <<>>)
           /\ cp' = [cp EXCEPT !.copy = copy(beat, ch),
                               !.full = chanBuf[beat.errChan] # <<>>]
    /\ UNCHANGED <<quit, currentBeat, held, seen, task, log, dpc,
                   consumerQueues, height, beat, dresult, dc, pb, nbp, scan,
                   fsm>>

\* NotifyBlockProcessed(err, nil) on the original or on the copy: with a nil
\* quit channel the send waits until the channel has room.
Publish(which, err) ==
    /\ dpc = "copy"
    /\ Target(which) # NoBeat
    /\ Len(cp.pub[which]) < MaxAcks
    /\ LET ch == Target(which).errChan
       IN  /\ CanSend(chanBuf[ch])
           /\ chanBuf' = [chanBuf EXCEPT ![ch] = Append(@, err)]
           /\ chanSent' = [chanSent EXCEPT ![ch] = Append(@, err)]
    /\ cp' = [cp EXCEPT !.pub[which] = Append(@, err)]
    /\ UNCHANGED <<quit, currentBeat, held, seen, task, log, dpc,
                   consumerQueues, height, beat, dresult, dc, pb, nbp, scan,
                   fsm>>

\* <-beat.errChan() on the original or on the copy.
Receive(which) ==
    /\ dpc = "copy"
    /\ Target(which) # NoBeat
    /\ LET ch == Target(which).errChan
       IN  /\ chanBuf[ch] # <<>>
           /\ cp' = [cp EXCEPT !.read[which] = Append(@, Head(chanBuf[ch]))]
           /\ chanBuf' = [chanBuf EXCEPT ![ch] = Tail(@)]
    /\ UNCHANGED <<quit, currentBeat, held, seen, chanSent, task, log, dpc,
                   consumerQueues, height, beat, dresult, dc, pb, nbp, scan,
                   fsm>>

\* ------------------------------------------- RBF co-op close state machine
\* lnwallet/chancloser/rbf_coop_transitions.go.  Every state is a record with
\* a name and the fields its struct holds; the history fields (prevState,
\* inputEvents, transitionEvent) and the signatures are left out.

Txs == {"tx1", "tx2"}

\* finalBalances := env.ChanObserver.FinalBalances().UnwrapOr(unknownBalance)
unknownBalance == "unknown"

\* The events: one record shape, the fields an event type does not have are
\* at their zero value.
NoEvent ==
    [type |-> "", Tx |-> "", DeliveryAddr |-> "", IdealFeeRate |-> "",
     ShutdownScript |-> "", BlockHeight |-> 0,
     ShutdownBalances |-> unknownBalance, FreshFlush |-> FALSE,
     Sequence |-> "", Sigs |-> {}, TargetFeeRate |-> ""]

SpendEvent(tx) == [NoEvent EXCEPT !.type = "SpendEvent", !.Tx = tx]

SendShutdown(addr, rate) ==
    [NoEvent EXCEPT !.type = "SendShutdown", !.DeliveryAddr = addr,
                    !.IdealFeeRate = rate]

ShutdownReceived(script, h) ==
    [NoEvent EXCEPT !.type = "ShutdownReceived", !.ShutdownScript = script,
                    !.BlockHeight = h]

ShutdownComplete == [NoEvent EXCEPT !.type = "ShutdownComplete"]

ChannelFlushed(balances, fresh) ==
    [NoEvent EXCEPT !.type = "ChannelFlushed", !.ShutdownBalances = balances,
                    !.FreshFlush = fresh]

OfferReceivedEvent(seq, sigs) ==
    [NoEvent EXCEPT !.type = "OfferReceivedEvent", !.Sequence = seq,
                    !.Sigs = sigs]

SendOfferEvent(rate) ==
    [NoEvent EXCEPT !.type = "SendOfferEvent", !.TargetFeeRate = rate]

LocalSigReceived(sigs) ==
    [NoEvent EXCEPT !.type = "LocalSigReceived", !.Sigs = sigs]

ProtocolEvents ==
    {SpendEvent(tx) : tx \in Txs}
    \cup {SendShutdown(a, r) : a \in {"", "addr"}, r \in {"r1"}}
    \cup {ShutdownReceived(s, h) : s \in {"s1"}, h \in 1..MaxHeight}
    \cup {ShutdownComplete}
    \cup {ChannelFlushed(b, f) : b \in {"b1", "b2"}, f \in BOOLEAN}
    \cup {OfferReceivedEvent(q, {s}) :
            q \in {"MaxRBFSequence", "MaxSequence"},
            s \in {"CloserNoClosee", "CloserAndClosee"}}
    \cup {SendOfferEvent(r) : r \in {"r1"}}
    \cup {LocalSigReceived(s) :
            s \in {{}, {"CloserAndClosee"}, {"NoCloserClosee", "CloserAndClosee"}}}

\* Errors: `is` is the sentinel errors.Is finds, `text` the wrapping message.
NilErr == [is |-> "", text |-> ""]
Errorf(sentinel, text) == [is |-> sentinel, text |-> text]

ErrInvalidStateTransition == "ErrInvalidStateTransition"
ErrTooManySigs == "ErrTooManySigs"
ErrRemoteCannotPay == "ErrRemoteCannotPay"
ErrNonFinalSequence == "ErrNonFinalSequence"
ErrCloserNoClosee == "ErrCloserNoClosee"
ErrCloserAndClosee == "ErrCloserAndClosee"

\* The states.
NilState == [name |-> "nil"]
ChannelActive == [name |-> "ChannelActive"]

ShutdownScripts(local, remote) ==
    [LocalDeliveryScript |-> local, RemoteDeliveryScript |-> remote]

ShutdownPendingSkipped(rate, scripts) ==
    [name |-> "ChannelFlushing", IdealFeeRate |-> rate,
     ShutdownScripts |-> scripts, EarlyRemoteOffer |-> NoEvent]

ShutdownPending(rate, scripts) ==
    [name |-> "ShutdownPending", IdealFeeRate |-> rate,
     ShutdownScripts |-> scripts]

ChannelFlushing(rate, scripts, offer) ==
    [name |-> "ChannelFlushing", IdealFeeRate |-> rate,
     ShutdownScripts |-> scripts, EarlyRemoteOffer |-> offer]

CloseChannelTerms(scripts, balances) ==
    [ShutdownScripts |-> scripts, ShutdownBalances |-> balances]

LocalCloseStart(terms) ==
    [name |-> "LocalCloseStart", CloseChannelTerms |-> terms]

LocalOfferSent(rate, terms) ==
    [name |-> "LocalOfferSent", ProposedFeeRate |-> rate,
     CloseChannelTerms |-> terms]

RemoteCloseStart(terms) ==
    [name |-> "RemoteCloseStart", CloseChannelTerms |-> terms]

ClosePending(tx) == [name |-> "ClosePending", CloseTx |-> tx]

ClosingNegotiation(localState, remoteState) ==
    [name |-> "ClosingNegotiation",
     PeerState |-> [LocalState |-> localState, RemoteState |-> remoteState]]

CloseFinUnconfirmed(tx) == [name |-> "CloseFin", ConfirmedTx |-> ""]
CloseFin(tx) == [name |-> "CloseFin", ConfirmedTx |-> tx]

\* CloseStateTransition and the (nil, err) return.
NoEvents == [IsSome |-> FALSE, InternalEvent |-> <<>>, ExternalEvents |-> <<>>]
InternalEvent(evs) ==
    [IsSome |-> TRUE, InternalEvent |-> evs, ExternalEvents |-> <<>>]
ExternalEvents(evs) ==
    [IsSome |-> TRUE, InternalEvent |-> <<>>, ExternalEvents |-> evs]

CloseStateTransition(next, events) ==
    [NextState |-> next, NewEvents |-> events, err |-> NilErr]
Failed(err) == [NextState |-> NilState, NewEvents |-> NoEvents, err |-> err]

\* The daemon events.
SendMsgEvent(msg, postSendEvent) ==
    [daemon |-> "SendMsgEvent", msg |-> msg, PostSendEvent |-> postSendEvent]
BroadcastTxn(tx) ==
    [daemon |-> "BroadcastTxn", msg |-> tx, PostSendEvent |-> ""]

\* What the calls into the environment return during one ProcessEvent: `fail`
\* names the call that returns an error (at most one matters: every caller
\* returns at the first error), `final` is ChanObserver.FinalBalances (or
\* unknownBalance), `canPay` is CloseChannelTerms.LocalCanPayFees, `dust` is
\* LocalAmtIsDust and `route` the sub-state whose ShouldRouteTo accepts.
NoOutcome ==
    [fail |-> "", final |-> unknownBalance, canPay |-> TRUE, dust |-> FALSE,
     route |-> ""]

Outcomes(c) ==
    CASE c.name = "ChannelActive" ->
           {[NoOutcome EXCEPT !.fail = f, !.final = b] :
              f \in {"", "validateShutdownScript", "NewDeliveryScript",
                     "DisableChannel", "DisableOutgoingAdds",
                     "MarkShutdownSent", "DisableIncomingAdds"},
              b \in {unknownBalance, "b1"}}
      [] c.name = "ShutdownPending" ->
           {[NoOutcome EXCEPT !.fail = f, !.final = b] :
              f \in {"", "validateShutdownScript", "DisableIncomingAdds"},
              b \in {unknownBalance, "b1"}}
      [] c.name = "ChannelFlushing" ->
           {[NoOutcome EXCEPT !.fail = f, !.canPay = p] :
              f \in {"", "MarkCoopBroadcasted"}, p \in BOOLEAN}
      [] c.name = "ClosingNegotiation" ->
           {NoOutcome}
           \cup {[NoOutcome EXCEPT !.fail = f, !.route = "local"] :
                   f \in {"", "CloseSigner", "MarkCoopBroadcasted"}}
           \cup {[NoOutcome EXCEPT !.fail = f, !.dust = d, !.route = "remote"] :
                   f \in {"", "RemoteCanPayFees", "CloseSigner",
                          "MarkCoopBroadcasted"},
                   d \in BOOLEAN}
      [] OTHER -> {NoOutcome}

\* func sendShutdownEvents(...) (protofsm.DaemonEventSet, error)
sendShutdownEvents(postSendEvent, o) ==
    LET msgsToSend == SendMsgEvent("Shutdown", postSendEvent)
    IN  IF o.final # unknownBalance
        THEN [events |-> <<msgsToSend>>, err |-> NilErr]
        ELSE IF o.fail = "DisableChannel"
        THEN [events |-> <<>>,
              err |-> Errorf("DisableChannel", "unable to disable channel")]
        ELSE IF o.fail = "DisableOutgoingAdds"
        THEN [events |-> <<>>,
              err |-> Errorf("DisableOutgoingAdds",
                             "unable to disable outgoing adds")]
        ELSE IF o.fail = "MarkShutdownSent"
        THEN [events |-> <<>>,
              err |-> Errorf("MarkShutdownSent",
                             "unable to mark shutdown sent")]
        ELSE [events |-> <<msgsToSend>>, err |-> NilErr]

\* func validateShutdown(chanThawHeight, upfrontAddr, msg, ...) error
validateShutdown(chanThawHeight, msg, o) ==
    IF chanThawHeight # -1 /\ msg.BlockHeight < chanThawHeight
    THEN Errorf("frozen", "initiator attempting to co-op close frozen")
    ELSE IF o.fail = "validateShutdownScript"
    THEN Errorf("validateShutdownScript", "")
    ELSE NilErr

\* env.LocalUpfrontShutdown.Alt(addr).UnwrapOrFuncErr(env.NewDeliveryScript)
UnwrapOrNewDeliveryScript(upfront, addr, o) ==
    IF upfront # "" THEN [script |-> upfront, err |-> NilErr]
    ELSE IF addr # "" THEN [script |-> addr, err |-> NilErr]
    ELSE IF o.fail = "NewDeliveryScript"
    THEN [script |-> "", err |-> Errorf("NewDeliveryScript", "")]
    ELSE [script |-> "new", err |-> NilErr]

InvalidTransitionUnwrapped(where) == Failed(Errorf("errors.New", where))

InvalidTransition(where) ==
    Failed(Errorf(ErrInvalidStateTransition, where))

\* func (c *ChannelActive) ProcessEvent(event, env)
ChannelActiveProcessEvent(c, msg, env, o) ==
    CASE msg.type = "SpendEvent" ->
           CloseStateTransition(CloseFin(msg.Tx), NoEvents)
      [] msg.type = "SendShutdown" ->
           LET sh == UnwrapOrNewDeliveryScript(env.LocalUpfrontShutdown,
                                               msg.DeliveryAddr, o)
               de == sendShutdownEvents("", o)
           IN  IF sh.err # NilErr THEN Failed(sh.err)
               ELSE IF de.err # NilErr THEN Failed(de.err)
               ELSE CloseStateTransition(
                        ShutdownPending(msg.IdealFeeRate,
                                        ShutdownScripts(sh.script, "")),
                        ExternalEvents(de.events))
      [] msg.type = "ShutdownReceived" ->
           LET ve == validateShutdown(env.ThawHeight, msg, o)
               sh == UnwrapOrNewDeliveryScript(env.LocalUpfrontShutdown,
                                               "", o)
               de == sendShutdownEvents("ShutdownComplete", o)
           IN  IF ve # NilErr THEN Failed(ve)
               ELSE IF sh.err # NilErr THEN Failed(sh.err)
               ELSE IF de.err # NilErr THEN Failed(de.err)
               ELSE IF o.fail = "DisableIncomingAdds"
               THEN Failed(Errorf("DisableIncomingAdds",
                                  "unable to disable incoming adds"))
               ELSE CloseStateTransition(
                        ShutdownPending("",
                            ShutdownScripts(sh.script, msg.ShutdownScript)),
                        ExternalEvents(de.events))
      [] OTHER -> InvalidTransition("ChannelActive")

\* The internal ChannelFlushed event of a close that is already in progress.
FlushedIfFinal(o) ==
    IF o.final # unknownBalance
    THEN InternalEvent(<<ChannelFlushed(o.final, FALSE)>>)
    ELSE NoEvents

\* func (s *ShutdownPending) ProcessEvent(event, env)
ShutdownPendingProcessEvent(s, msg, env, o) ==
    CASE msg.type = "SpendEvent" ->
           CloseStateTransition(CloseFin(msg.Tx), NoEvents)
      [] msg.type = "ShutdownReceived" ->
           LET ve == validateShutdown(env.ThawHeight, msg, o)
           IN  IF ve # NilErr THEN Failed(ve)
               ELSE IF o.fail = "DisableIncomingAdds"
               THEN Failed(Errorf("DisableIncomingAdds",
                                  "unable to disable incoming adds"))
               ELSE CloseStateTransition(
                        ChannelFlushing(s.IdealFeeRate,
                            ShutdownScripts(
                                s.ShutdownScripts.LocalDeliveryScript,
                                msg.ShutdownScript),
                            NoEvent),
                        FlushedIfFinal(o))
      [] msg.type = "ShutdownComplete" ->
           CloseStateTransition(
               ChannelFlushing(s.IdealFeeRate, s.ShutdownScripts, NoEvent),
               FlushedIfFinal(o))
      [] OTHER -> InvalidTransition("ShutdownPending")

FlushedEventsOfferLast(offer, canPay, idealFeeRate) ==
    (IF canPay THEN <<SendOfferEvent(idealFeeRate)>> ELSE <<>>)
    \o (IF offer # NoEvent THEN <<offer>> ELSE <<>>)

\* The internal events of the ChannelFlushed case: the stashed offer, then the
\* local offer.
FlushedEvents(offer, canPay, idealFeeRate) ==
    (IF offer # NoEvent THEN <<offer>> ELSE <<>>)
    \o (IF canPay THEN <<SendOfferEvent(idealFeeRate)>> ELSE <<>>)

\* func (c *ChannelFlushing) ProcessEvent(event, env)
ChannelFlushingProcessEvent(c, msg, env, o) ==
    CASE msg.type = "SpendEvent" ->
           CloseStateTransition(CloseFin(msg.Tx), NoEvents)
      [] msg.type = "OfferReceivedEvent" ->
           CloseStateTransition([c EXCEPT !.EarlyRemoteOffer = msg], NoEvents)
      [] msg.type = "ChannelFlushed" ->
           LET closeTerms == CloseChannelTerms(c.ShutdownScripts,
                                               msg.ShutdownBalances)
               idealFeeRate == IF c.IdealFeeRate # "" THEN c.IdealFeeRate
                               ELSE env.DefaultFeeRate
               internalEvents == FlushedEvents(c.EarlyRemoteOffer, o.canPay,
                                               idealFeeRate)
           IN  IF msg.FreshFlush /\ o.fail = "MarkCoopBroadcasted"
               THEN Failed(Errorf("MarkCoopBroadcasted", ""))
               ELSE CloseStateTransition(
                        ClosingNegotiation(LocalCloseStart(closeTerms),
                                           RemoteCloseStart(closeTerms)),
                        IF Len(internalEvents) > 0
                        THEN InternalEvent(internalEvents) ELSE NoEvents)
      [] OTHER -> InvalidTransition("ChannelFlushing")

\* func (l *LocalCloseStart) ProcessEvent(event, env)
LocalCloseStartProcessEvent(l, msg, env, o) ==
    IF msg.type = "SendOfferEvent"
    THEN IF o.fail = "CloseSigner" THEN Failed(Errorf("CloseSigner", ""))
         ELSE CloseStateTransition(
                  LocalOfferSent(msg.TargetFeeRate, l.CloseChannelTerms),
                  ExternalEvents(<<SendMsgEvent("ClosingComplete", "")>>))
    ELSE InvalidTransition("LocalCloseStart")

\* func extractSig(msg lnwire.ClosingSig) (*lnwire.Sig, error)
extractSig(msg) ==
    IF Cardinality(msg.Sigs) # 1
    THEN Errorf(ErrTooManySigs, "expected: 1") ELSE NilErr

\* func (l *LocalOfferSent) ProcessEvent(event, env)
LocalOfferSentProcessEvent(l, msg, env, o) ==
    IF msg.type = "LocalSigReceived"
    THEN IF extractSig(msg) # NilErr THEN Failed(extractSig(msg))
         ELSE IF o.fail = "CloseSigner" THEN Failed(Errorf("CloseSigner", ""))
         ELSE IF o.fail = "MarkCoopBroadcasted"
         THEN Failed(Errorf("MarkCoopBroadcasted", ""))
         ELSE CloseStateTransition(ClosePending("closeTx"),
                  ExternalEvents(<<BroadcastTxn("closeTx")>>))
    ELSE InvalidTransition("LocalOfferSent")

\* func (l *RemoteCloseStart) ProcessEvent(event, env)
RemoteCloseStartProcessEvent(l, msg, env, o) ==
    IF msg.type = "OfferReceivedEvent"
    THEN IF o.fail = "RemoteCanPayFees"
         THEN Failed(Errorf(ErrRemoteCannotPay, ""))
         ELSE IF msg.Sequence # "MaxRBFSequence"
         THEN Failed(Errorf(ErrNonFinalSequence, ""))
         ELSE IF o.dust /\ "CloserNoClosee" \notin msg.Sigs
         THEN Failed(Errorf(ErrCloserNoClosee, ""))
         ELSE IF ~o.dust /\ "CloserAndClosee" \notin msg.Sigs
         THEN Failed(Errorf(ErrCloserAndClosee, ""))
         ELSE IF o.fail = "CloseSigner" THEN Failed(Errorf("CloseSigner", ""))
         ELSE IF o.fail = "MarkCoopBroadcasted"
         THEN Failed(Errorf("MarkCoopBroadcasted", ""))
         ELSE CloseStateTransition(ClosePending("closeTx"),
                  ExternalEvents(<<SendMsgEvent("ClosingSig", ""),
                                   BroadcastTxn("closeTx")>>))
    ELSE InvalidTransition("RemoteCloseStart")

\* func (c *ClosePending) ProcessEvent(event, env)
ClosePendingProcessEvent(c, msg, env, o) ==
    IF msg.type = "SpendEvent"
    THEN CloseStateTransition(CloseFin(msg.Tx), NoEvents)
    ELSE CloseStateTransition(c, NoEvents)

CloseFinRestarts(c, msg, env, o) ==
    IF msg.type = "SendShutdown"
    THEN CloseStateTransition(ChannelActive, InternalEvent(<<msg>>))
    ELSE CloseStateTransition(c, NoEvents)

\* func (c *CloseFin) ProcessEvent(event, env)
CloseFinProcessEvent(c, msg, env, o) == CloseStateTransition(c, NoEvents)

\* The ProcessEvent of a sub-state of the negotiation, by its dynamic type.
PeerProcessEvent(l, msg, env, o) ==
    CASE l.name = "LocalCloseStart" -> LocalCloseStartProcessEvent(l, msg, env, o)
      [] l.name = "LocalOfferSent" -> LocalOfferSentProcessEvent(l, msg, env, o)
      [] l.name = "RemoteCloseStart" ->
           RemoteCloseStartProcessEvent(l, msg, env, o)
      [] l.name = "ClosePending" -> ClosePendingProcessEvent(l, msg, env, o)

\* transition.NextState.(AsymmetricPeerState)
AsymmetricPeerState(s) ==
    s.name \in {"LocalCloseStart", "LocalOfferSent", "RemoteCloseStart",
                "ClosePending"}

\* One arm of the routing switch: drive the sub-state, rebuild the negotiation.
Routed(transition, localState, remoteState, local) ==
    IF transition.err # NilErr THEN Failed(transition.err)
    ELSE IF ~AsymmetricPeerState(transition.NextState)
    THEN Failed(Errorf("AsymmetricPeerState", "expected AsymmetricPeerState"))
    ELSE CloseStateTransition(
             IF local
             THEN ClosingNegotiation(transition.NextState, remoteState)
             ELSE ClosingNegotiation(localState, transition.NextState),
             transition.NewEvents)

ClosingNegotiationRoutesShutdown(c, event, env, o) ==
    LET localState == c.PeerState.LocalState
        remoteState == c.PeerState.RemoteState
    IN  IF event.type = "SpendEvent"
        THEN CloseStateTransition(CloseFin(event.Tx), NoEvents)
        ELSE IF o.route = "local"
        THEN Routed(PeerProcessEvent(localState, event, env, o),
                    localState, remoteState, TRUE)
        ELSE IF o.route = "remote"
        THEN Routed(PeerProcessEvent(remoteState, event, env, o),
                    localState, remoteState, FALSE)
        ELSE InvalidTransition("ClosingNegotiation")

\* func (c *ClosingNegotiation) ProcessEvent(event, env)
ClosingNegotiationProcessEvent(c, event, env, o) ==
    LET localState == c.PeerState.LocalState
        remoteState == c.PeerState.RemoteState
    IN  CASE event.type = "SpendEvent" ->
               CloseStateTransition(CloseFin(event.Tx), NoEvents)
          [] event.type \in {"ShutdownReceived", "SendShutdown"} ->
               CloseStateTransition(ChannelActive, InternalEvent(<<event>>))
          [] OTHER ->
               IF o.route = "local"
               THEN Routed(PeerProcessEvent(localState, event, env, o),
                           localState, remoteState, TRUE)
               ELSE IF o.route = "remote"
               THEN Routed(PeerProcessEvent(remoteState, event, env, o),
                           localState, remoteState, FALSE)
               ELSE InvalidTransition("ClosingNegotiation")

\* ProcessEvent of the machine's current state, by its dynamic type.
ProcessEvent(c, event, env, o) ==
    CASE c.name = "ChannelActive" -> ChannelActiveProcessEvent(c, event, env, o)
      [] c.name = "ShutdownPending" ->
           ShutdownPendingProcessEvent(c, event, env, o)
      [] c.name = "ChannelFlushing" ->
           ChannelFlushingProcessEvent(c, event, env, o)
      [] c.name = "ClosingNegotiation" ->
           ClosingNegotiationProcessEvent(c, event, env, o)
      [] c.name = "CloseFin" -> CloseFinProcessEvent(c, event, env, o)

\* Environment: the fields of the machine's configuration the transitions read.
Environments ==
    [ThawHeight : {-1, MaxHeight}, LocalUpfrontShutdown : {"", "up"},
     DefaultFeeRate : {"rDefault"}]

NoFsm ==
    [env |-> [ThawHeight |-> -1, LocalUpfrontShutdown |-> "",
              DefaultFeeRate |-> "rDefault"],
     cur |-> NilState, from |-> NilState, event |-> NoEvent,
     res |-> Failed(NilErr), queue |-> <<>>]

\* The driver: the current state processes the event; on success the machine
\* moves to NextState and queues the internal events, on an error it keeps its
\* state.
Apply(event, o) ==
    LET t == ProcessEvent(fsm.cur, event, fsm.env, o)
    IN  fsm' = [fsm EXCEPT
                  !.cur = IF t.err = NilErr THEN t.NextState ELSE @,
                  !.from = fsm.cur, !.event = event, !.res = t,
                  !.queue = IF t.err = NilErr
                            THEN (IF @ = <<>> THEN @ ELSE Tail(@))
                                 \o t.NewEvents.InternalEvent
                            ELSE <<>>]

\* An event from outside (SendEvent), taken when no internal event is pending.
SendEvent(event) ==
    /\ dpc = "rbf"
    /\ fsm.queue = <<>>
    /\ \E o \in Outcomes(fsm.cur) : Apply(event, o)
    /\ UNCHANGED <<quit, currentBeat, held, seen, chanBuf, chanSent, task,
                   log, dpc, consumerQueues, height, beat, dresult, dc, pb,
                   nbp, scan, cp>>

\* The next internal event a transition emitted.
InternalStep ==
    /\ dpc = "rbf"
    /\ fsm.queue # <<>>
    /\ \E o \in Outcomes(fsm.cur) : Apply(Head(fsm.queue), o)
    /\ UNCHANGED <<quit, currentBeat, held, seen, chanBuf, chanSent, task,
                   log, dpc, consumerQueues, height, beat, dresult, dc, pb,
                   nbp, scan, cp>>

\* --------------------------------------------------------- specifications
InitShared ==
    /\ scan = NoScan
    /\ cp = NoCopy
    /\ pb = [c \in Consumers |-> NoCall]
    /\ nbp = [c \in Consumers |-> NoAck]
    /\ quit = [c \in Consumers |-> FALSE]
    /\ currentBeat = [c \in Consumers |-> NoBeat]
    /\ held = [c \in Consumers |-> NoBeat]
    /\ seen = [c \in Consumers |-> {}]
    /\ task = <<>>
    /\ log = <<>>
    /\ consumerQueues = <<>>
    /\ dresult = Nil
    /\ dc = NoDC

\* The dispatcher after NewBlockbeatDispatcher: no queue, no beat.
Init ==
    /\ InitShared
    /\ fsm = NoFsm
    /\ dpc = "init"
    /\ height = 0
    /\ beat = NoBeat
    /\ chanBuf = <<>>
    /\ chanSent = <<>>

Dispatch ==
    \/ \E w \in DOMAIN task : NotifyAndWait(w)
    \/ \E w \in DOMAIN task : SendBeat(w)
    \/ \E w \in DOMAIN task : QuitBeforeSend(w)
    \/ \E w \in DOMAIN task : RecvAck(w)
    \/ \E w \in DOMAIN task : Timeout(w)
    \/ Tick
    \/ \E c \in Consumers : \E err \in AckValues : NotifyBlockProcessed(c, err)
    \/ \E c \in Consumers : CloseQuit(c)

Next ==
    \/ \E n \in 1..MaxQueueLen : RegisterQueue(n)
    \/ Start
    \/ NextEpoch
    \/ NotifyQueuesReturn
    \/ Dispatch

Spec == Init /\ [][Next]_vars

\* A beat built with NewBeat on which DispatchSequential or DispatchConcurrent
\* is called directly.
InitBeat ==
    /\ InitShared
    /\ fsm = NoFsm
    /\ dpc = "direct"
    /\ height = MaxHeight
    /\ beat = NewBeat(BlockEpoch(height), MakeChan(height, 0, 0))
    /\ chanBuf = (MakeChan(height, 0, 0) :> <<>>)
    /\ chanSent = (MakeChan(height, 0, 0) :> <<>>)

NextBeat ==
    \/ \E cs \in ConsumerLists : DispatchSequential(cs)
    \/ \E cs \in ConsumerLists : DispatchConcurrent(cs)
    \/ \E nm \in 1..NumNames : ConcRange(nm)
    \/ ConcRecv
    \/ Dispatch

SpecBeat == InitBeat /\ [][NextBeat]_vars

\* The scheduling of a direct dispatch: a goroutine that can take a step
\* eventually takes one, a select with a ready case eventually proceeds, time
\* passes and the timer fires; and every consumer's subsystem eventually reads
\* from BlockbeatChan unless the consumer's quit is closed and taken first.
FairBeat ==
    /\ \A w \in 1..MaxListLen :
          /\ WF_vars(w \in DOMAIN task /\ NotifyAndWait(w))
          /\ WF_vars(w \in DOMAIN task /\ (SendBeat(w) \/ QuitBeforeSend(w)))
          /\ WF_vars(w \in DOMAIN task /\ RecvAck(w))
          /\ WF_vars(w \in DOMAIN task /\ Timeout(w))
    /\ WF_vars(Tick)
    /\ WF_vars(\E nm \in 1..NumNames : ConcRange(nm))
    /\ WF_vars(ConcRecv)

SpecBeatFair == InitBeat /\ [][NextBeat]_vars /\ FairBeat

\* A BeatConsumer on which ProcessBlock is called directly, and its subsystem.
InitConsumer ==
    /\ InitShared
    /\ fsm = NoFsm
    /\ dpc = "consumer"
    /\ height = 0
    /\ beat = NoBeat
    /\ chanBuf = <<>>
    /\ chanSent = <<>>

NextConsumer ==
    \/ \E c \in Consumers : \E h \in 1..MaxHeight : ProcessBlock(c, h)
    \/ \E c \in Consumers : ProcessBlockSend(c)
    \/ \E c \in Consumers : ProcessBlockQuitBeforeSend(c)
    \/ \E c \in Consumers : ProcessBlockAck(c)
    \/ \E c \in Consumers : ProcessBlockQuitAfterSend(c)
    \/ \E c \in Consumers : \E err \in AckValues : \E useQuit \in BOOLEAN :
          NotifyBlockProcessedCall(c, err, useQuit)
    \/ \E c \in Consumers : SendOrQuitSend(c)
    \/ \E c \in Consumers : SendOrQuitQuit(c)
    \/ \E c \in Consumers : CloseQuit(c)

SpecConsumer == InitConsumer /\ [][NextConsumer]_vars

\* A beat of some height whose block is scanned by a subsystem.
InitScan ==
    /\ InitShared
    /\ fsm = NoFsm
    /\ dpc = "scan"
    /\ height \in 1..MaxHeight
    /\ beat = NewBeat(BlockEpoch(height), MakeChan(height, 0, 0))
    /\ chanBuf = (MakeChan(height, 0, 0) :> <<>>)
    /\ chanSent = (MakeChan(height, 0, 0) :> <<>>)

NextScan ==
    \/ \E txIn \in TxIns : AddTx(txIn)
    \/ \E txIn \in TxIns : AddTxIn(txIn)
    \/ \E outpoint \in Outpoints : CallHasOutpointSpent(outpoint)
    \/ \E outpoint \in Outpoints : \E pkScript \in PkScripts :
          CallHasOutpointSpentByScript(outpoint, pkScript)

SpecScan == InitScan /\ [][NextScan]_vars

\* A beat of some height that is copied, published on and read.
InitCopy ==
    /\ InitShared
    /\ fsm = NoFsm
    /\ dpc = "copy"
    /\ height \in 1..MaxHeight
    /\ beat = NewBeat(BlockEpoch(height), MakeChan(height, 0, 0))
    /\ chanBuf = (MakeChan(height, 0, 0) :> <<>>)
    /\ chanSent = (MakeChan(height, 0, 0) :> <<>>)

NextCopy ==
    \/ CopyBeat
    \/ \E which \in {"orig", "copy"} : \E err \in AckValues :
          Publish(which, err)
    \/ \E which \in {"orig", "copy"} : Receive(which)

SpecCopy == InitCopy /\ [][NextCopy]_vars

\* Both helpers: the channel-returning ProcessBlock under the dispatcher, or
\* the error-returning ProcessBlock called directly.
InitHelpers == Init \/ InitConsumer

NextHelpers ==
    \/ dpc # "consumer" /\ Next
    \/ dpc = "consumer" /\ NextConsumer

SpecHelpers == InitHelpers /\ [][NextHelpers]_vars

\* The RBF co-op close state machine after its construction: ChannelActive.
InitRbf ==
    /\ InitShared
    /\ dpc = "rbf"
    /\ height = 0
    /\ beat = NoBeat
    /\ chanBuf = <<>>
    /\ chanSent = <<>>
    /\ \E e \in Environments :
          fsm = [NoFsm EXCEPT !.env = e, !.cur = ChannelActive]

NextRbf ==
    \/ \E event \in ProtocolEvents : SendEvent(event)
    \/ InternalStep

SpecRbf == InitRbf /\ [][NextRbf]_vars

\* ------------------------------------------------------------------ claims
\* The notifyAndWait calls made so far in the running dispatch: <<task, k>>.
Calls == {<<w, k>> : w \in DOMAIN log, k \in 1..MaxListLen + MaxQueueLen} \cap
         UNION {{<<w, k>> : k \in 1..Len(log[w])} : w \in DOMAIN log}

\* No value has been sent yet on the ack channel of the copy of call e.
UnAcked(e) == chanSent[e.copy.errChan] = <<>>

\* C1. Sequential order law: a task visits its consumers in list order,
\* calls ProcessBlock on the next one only after it received the ack of the
\* one before, and at most one consumer of its list holds an un-acked beat.
C1_SequentialOrder ==
    \A w \in DOMAIN task :
        /\ Len(log[w]) <= Len(task[w].consumers)
        /\ \A k \in 1..Len(log[w]) : log[w][k].consumer = task[w].consumers[k]
        /\ \A k \in 1..Len(log[w]) - 1 : log[w][k].recv \in AckValues
        /\ Cardinality({k \in 1..Len(log[w]) : UnAcked(log[w][k])}) <= 1

\* The second consumer of a sequential list holds its beat after the first
\* one received and acknowledged its own.
C1_Witness ==
    /\ dc.pc = "seq"
    /\ Len(log[1]) = 2
    /\ log[1][1].handed /\ log[1][1].recv = Nil
    /\ log[1][2].handed

\* C2. Concurrent completion law: when DispatchConcurrent has returned, no
\* task it spawned is still running (stated for lists of distinct names).
C2_ConcurrentCompletion ==
    (dc.pc = "returned" /\ DistinctNames(dc.consumers)) =>
        \A i \in DOMAIN task : task[i].pc = "done"

\* C3. Timeout law: no notifyAndWait is still undecided more than
\* DefaultProcessBlockTimeout after the dispatch reached its consumer, be it
\* inside ProcessBlock (the subsystem has not read the beat) or waiting for
\* the ack; by then it has returned the timeout error.
C3_TimeoutLaw ==
    \A w \in DOMAIN task :
        /\ task[w].pc = "send" => task[w].blocked <= DefaultProcessBlockTimeout
        /\ task[w].pc = "wait" => task[w].timer <= DefaultProcessBlockTimeout

\* C4. DispatchSequential aborts on the first failure: it returns the error
\* of the first consumer that failed (an ack with an error, or a timeout) and
\* calls no later consumer; it returns nil only after every consumer acked nil.
C4_AbortOnFirstFailure ==
    \A w \in DOMAIN task :
        LET n == Len(log[w])
        IN  /\ \A k \in 1..n - 1 : log[w][k].result = Nil
            /\ task[w].pc = "done" /\ task[w].result # Nil =>
                  /\ n >= 1
                  /\ log[w][n].result = task[w].result
                  /\ task[w].result \in
                        {WrapProcessBlock(log[w][n].consumer, ErrDummy),
                         WrapTimeout(log[w][n].consumer)}
            /\ task[w].pc = "done" /\ task[w].result = Nil =>
                  /\ n = Len(task[w].consumers)
                  /\ \A k \in 1..n : log[w][k].recv = Nil /\ log[w][k].result = Nil

\* A sequential dispatch over two consumers returned the first one's error
\* and never called the second.
C4_Witness ==
    /\ dc.pc = "seq"
    /\ Len(dc.consumers) = 2
    /\ task[1].pc = "done"
    /\ task[1].result # Nil
    /\ Len(log[1]) = 1

\* C5. For a list of distinct names DispatchConcurrent returns nil exactly
\* when every consumer's notifyAndWait returned nil, and otherwise the error
\* of one of the failing consumers.
C5_ConcurrentResult ==
    (dc.pc = "returned" /\ DistinctNames(dc.consumers)) =>
        /\ dc.result = Nil <=>
              \A i \in DOMAIN task :
                 /\ task[i].pc = "done" /\ task[i].result = Nil
                 /\ log[i][1].recv = Nil
        /\ dc.result # Nil =>
              \E i \in DOMAIN task :
                 /\ task[i].pc = "done"
                 /\ task[i].result = dc.result
                 /\ dc.result \in {WrapProcessBlock(dc.consumers[i], ErrDummy),
                                   WrapTimeout(dc.consumers[i])}

\* DispatchConcurrent over two consumers of different names returned an error.
C5_Witness ==
    /\ dc.pc = "returned"
    /\ Len(dc.consumers) = 2
    /\ DistinctNames(dc.consumers)
    /\ dc.result # Nil

\* C6. Fresh copy per delivery: the beats passed to ProcessBlock in one
\* dispatch carry the epoch of the dispatched beat and have pairwise distinct
\* channels, none of them the dispatched beat's own.
C6_FreshCopy ==
    \A x \in Calls :
        LET e == log[x[1]][x[2]]
        IN  /\ e.copy.epoch = beat.epoch
            /\ Height(e.copy) = Height(beat)
            /\ e.copy.errChan # beat.errChan
            /\ \A y \in Calls : y # x => log[y[1]][y[2]].copy.errChan # e.copy.errChan

\* Two consumers dispatched concurrently have both been handed their copy.
C6_Witness ==
    /\ dc.pc = "range"
    /\ Cardinality(DOMAIN task) = 2
    /\ \A i \in DOMAIN task : Len(log[i]) = 1 /\ log[i][1].handed

\* C7. notifyAndWait maps the ack it received to its result: nil to nil, an
\* error e to an error that wraps e and carries the consumer's name; its
\* result is nil only if nil is all that was ever sent on the copy's channel.
C7_AckMapping ==
    \A x \in Calls :
        LET e == log[x[1]][x[2]]
        IN  /\ e.recv = Nil => e.result = Nil
            /\ e.recv \in AckValues \ {Nil} =>
                  /\ e.result # Nil
                  /\ ErrorsIs(e.result, e.recv.cause)
                  /\ e.result.name = Name(e.consumer)
                  /\ e.result = WrapProcessBlock(e.consumer, e.recv)
            /\ e.result = Nil =>
                  /\ e.recv = Nil
                  /\ \A i \in 1..Len(chanSent[e.copy.errChan]) :
                        chanSent[e.copy.errChan][i] = Nil

\* A notifyAndWait received errDummy and returned it wrapped.
C7_Witness ==
    \E x \in Calls :
        /\ log[x[1]][x[2]].recv = ErrDummy
        /\ log[x[1]][x[2]].result = WrapProcessBlock(log[x[1]][x[2]].consumer, ErrDummy)

\* C8 as claimed. Inter-block ordering: once any consumer has observed block
\* h + 1, every registered consumer has observed block h.
C8_InterBlockOrder ==
    \A c \in Registered : \A d \in Registered : \A h \in 1..MaxHeight :
        (h + 1) \in seen[d] => h \in seen[c]

\* C8 as amended. Once any consumer has observed block h + 1, every
\* registered consumer has observed block h or has its quit closed.
C8_InterBlockOrderUnlessQuit ==
    \A c \in Registered : \A d \in Registered : \A h \in 1..MaxHeight :
        (h + 1) \in seen[d] => (h \in seen[c] \/ quit[c])

\* A consumer observed block 2 while another, whose quit closed during block
\* 1, never observed block 1.
C8_Witness ==
    \E c \in Registered : \E d \in Registered :
        /\ 2 \in seen[d]
        /\ 1 \notin seen[c]
        /\ quit[c]

\* The copy of task w is with its consumer and notifyAndWait has not returned.
Running(w) == task[w].pc \in {"send", "wait"}

\* C9. At most one block in flight: every beat copy that is delivered and
\* neither acknowledged nor timed out, and every beat a subsystem still
\* holds, carries the height of the one beat whose notifyQueues is running.
C9_OneBlockInFlight ==
    /\ \A w \in DOMAIN task :
          Running(w) => (dpc = "notify" /\ Height(task[w].copy) = height)
    /\ \A w \in DOMAIN task : \A v \in DOMAIN task :
          (Running(w) /\ Running(v)) => Height(task[w].copy) = Height(task[v].copy)
    /\ \A c \in Consumers : held[c] # NoBeat => Height(held[c]) = height

\* Two queues each have a copy of block 2 in flight.
C9_Witness ==
    /\ height = 2
    /\ Cardinality(DOMAIN task) = 2
    /\ \A w \in DOMAIN task : task[w].pc = "wait"

\* notifyQueues has returned for the current beat.
NotifyQueuesReturned == height >= 1 /\ dpc \in {"idle", "stopped"}

\* C10. Queue fan-out: notifyQueues runs one DispatchSequential per
\* registered queue, over that queue's consumers, returns only after every
\* one of them has reported, and returns nil when all of them report nil.
C10_QueueFanOut ==
    /\ dpc \in {"notify", "idle", "stopped"} /\ height >= 1 =>
          /\ DOMAIN task = DOMAIN consumerQueues
          /\ \A q \in DOMAIN task : task[q].consumers = consumerQueues[q]
    /\ NotifyQueuesReturned =>
          /\ \A q \in DOMAIN task : task[q].pc = "done"
          /\ (\A q \in DOMAIN task : task[q].result = Nil) =>
                (dresult = Nil /\ dpc = "idle")

\* notifyQueues returned nil after two queues were dispatched.
C10_Witness ==
    /\ NotifyQueuesReturned
    /\ Len(consumerQueues) = 2
    /\ dresult = Nil
    /\ \A q \in DOMAIN task : Len(log[q]) = Len(consumerQueues[q])

\* C11. notifyQueues propagates failure: when the sequential dispatch of some
\* queue returned an error, notifyQueues returns an error that wraps the error
\* of one of the failing queues.
C11_PropagatesFailure ==
    (NotifyQueuesReturned /\ \E q \in DOMAIN task : task[q].result # Nil) =>
        /\ dresult # Nil
        /\ \E q \in DOMAIN task :
              /\ task[q].result # Nil
              /\ ErrorsIs(dresult, task[q].result.cause)
              /\ dresult.cause \in {ErrDummy.cause, WrapTimeout(1).cause}

\* Of two queues one reported nil and one an error, and notifyQueues returned.
C11_Witness ==
    /\ NotifyQueuesReturned
    /\ Len(consumerQueues) = 2
    /\ \E q \in DOMAIN task : task[q].result = Nil
    /\ \E q \in DOMAIN task : task[q].result # Nil

\* C12. A dispatch error is fatal and never retried: once notifyQueues has
\* returned an error the main loop stays stopped; no later epoch is taken, no
\* notifyAndWait is started and no consumer is handed a beat again.
C12_FatalNoRetry ==
    [][dpc = "stopped" =>
          /\ dpc' = "stopped"
          /\ height' = height
          /\ beat' = beat
          /\ task' = task
          /\ log' = log
          /\ seen' = seen
          /\ currentBeat' = currentBeat
          /\ dresult' = dresult /\ dresult # Nil]_vars

\* The main loop stopped on block 1 with later blocks still to come, and the
\* failing consumer's subsystem still holds the beat of block 1.
C12_Witness ==
    /\ dpc = "stopped"
    /\ height < MaxHeight
    /\ \E c \in Registered : held[c] # NoBeat /\ Height(held[c]) = height

\* Call k of task w has come back from ProcessBlock.
Returned(w, k) == ~(k = Len(log[w]) /\ task[w].pc = "send")

\* C13. Quit preempts the send: a ProcessBlock that came back without its
\* beat being handed to the subsystem found quit closed and left nil, and
\* nothing else, in the channel it returned; the wait on it takes that nil at
\* once and notifyAndWait returns nil.
C13_QuitPreemptsSend ==
    \A x \in Calls :
        LET e == log[x[1]][x[2]]
            ch == e.copy.errChan
        IN  (~e.handed /\ Returned(x[1], x[2])) =>
                /\ quit[e.consumer]
                /\ chanSent[ch] = <<Nil>>
                /\ held[e.consumer] # e.copy
                /\ e.recv \in {Pending, Nil}
                /\ e.result \in {Pending, Nil}
                /\ e.recv = Pending =>
                      /\ chanBuf[ch] = <<Nil>>
                      /\ task[x[1]].pc = "wait" /\ task[x[1]].timer = 0

\* A notifyAndWait returned nil for a consumer that was never handed the beat.
C13_Witness ==
    \E x \in Calls :
        /\ ~log[x[1]][x[2]].handed
        /\ log[x[1]][x[2]].recv = Nil
        /\ log[x[1]][x[2]].result = Nil
        /\ task[x[1]].pc = "done"

\* The subsystem of task w's consumer holds the beat un-acked, its quit is
\* closed and notifyAndWait waits.
QuitInWait(w) ==
    /\ task[w].pc = "wait"
    /\ held[CurConsumer(w)] = task[w].copy
    /\ quit[CurConsumer(w)]

\* C14 as claimed. Quit preempts the acknowledgement wait: with quit closed
\* after the subsystem read the beat and before it calls NotifyBlockProcessed,
\* the wait does not end in a timeout error.
C14_QuitPreemptsAck ==
    [][\A w \in DOMAIN task :
          QuitInWait(w) =>
              log'[w][Len(log[w])].result \in {Pending, Nil}]_vars

\* C14 as amended. In that case the helper has written nothing on the
\* channel; the wait lasts no longer than the timeout and ends, unless the
\* subsystem still publishes an ack, with the timeout error once
\* DefaultProcessBlockTimeout has passed.
C14_QuitLeavesAckToSubsystem ==
    [][\A w \in DOMAIN task :
          QuitInWait(w) =>
              /\ chanSent[task[w].copy.errChan] = <<>>
              /\ chanBuf[task[w].copy.errChan] = <<>>
              /\ task[w].timer < DefaultProcessBlockTimeout + TickSeconds
              /\ log'[w][Len(log[w])].result
                    \in {Pending, WrapTimeout(CurConsumer(w))}
              /\ log'[w][Len(log[w])].result # Pending =>
                    task[w].timer >= DefaultProcessBlockTimeout]_vars

\* A notifyAndWait ended with the timeout error while the subsystem, its quit
\* closed, still holds the beat it read.
C14_Witness ==
    \E w \in DOMAIN task :
        /\ Len(log[w]) >= 1
        /\ LET e == log[w][Len(log[w])]
           IN  /\ e.handed
               /\ quit[e.consumer]
               /\ held[e.consumer] = e.copy
               /\ e.result = WrapTimeout(e.consumer)

\* C19. At most one acknowledgement per beat copy: at most one value is ever
\* written on the channel of a copy, be it the subsystem's ack or the nil of
\* the quit path (never both), and no copy is handed to two consumers.
C19_OneAckPerCopy ==
    /\ \A x \in Calls :
          LET e == log[x[1]][x[2]]
          IN  /\ Len(chanSent[e.copy.errChan]) <= 1
              /\ Len(chanBuf[e.copy.errChan]) <= 1
              /\ (~e.handed /\ Returned(x[1], x[2])) =>
                    held[e.consumer] # e.copy
              /\ \A c \in Consumers : held[c] = e.copy =>
                    (c = e.consumer /\ e.handed /\ chanSent[e.copy.errChan] = <<>>)
              /\ \A y \in Calls :
                    (y # x /\ log[y[1]][y[2]].handed /\ e.handed) =>
                        log[y[1]][y[2]].copy # e.copy
    /\ \A c \in Consumers : \A d \in Consumers :
          (c # d /\ held[c] # NoBeat) => held[c] # held[d]
    /\ \A c \in Consumers : held[c] # NoBeat =>
          \E x \in Calls : log[x[1]][x[2]].copy = held[c]

\* One copy was acknowledged by its subsystem and another got the nil of the
\* quit path.
C19_Witness ==
    \E x \in Calls : \E y \in Calls :
        /\ log[x[1]][x[2]].handed
        /\ Len(chanSent[log[x[1]][x[2]].copy.errChan]) = 1
        /\ ~log[y[1]][y[2]].handed
        /\ chanSent[log[y[1]][y[2]].copy.errChan] = <<Nil>>

\* C20. RegisterQueue assigns the queue ids 1, 2, 3, ... in call order: a
\* call adds one queue under the next id and leaves the queues stored before
\* as they were; a stored queue lists its consumers in the order supplied,
\* which is the order a dispatch calls them in.
C20_QueueIds ==
    [][/\ consumerQueues' # consumerQueues =>
             /\ DOMAIN consumerQueues' = 1..(Len(consumerQueues) + 1)
             /\ \A q \in DOMAIN consumerQueues :
                   consumerQueues'[q] = consumerQueues[q]
             /\ LET new == consumerQueues'[Len(consumerQueues) + 1]
                IN  \A i \in DOMAIN new :
                       new[i] = Cardinality(Registered) + i
       /\ DOMAIN consumerQueues = 1..Len(consumerQueues)
       /\ \A q \in DOMAIN log' :
             /\ q \in DOMAIN consumerQueues
             /\ \A k \in 1..Len(log'[q]) :
                   log'[q][k].consumer = consumerQueues[q][k]]_vars

\* Two queues were registered under the ids 1 and 2 and each one's consumer
\* has been called.
C20_Witness ==
    /\ DOMAIN consumerQueues = {1, 2}
    /\ DOMAIN log = {1, 2}
    /\ \A q \in DOMAIN log :
          Len(log[q]) >= 1 /\ log[q][1].consumer = consumerQueues[q][1]

\* ProcessBlock is inside one of its selects on consumer c.
InProcessBlock(c) == pb[c].pc \in {"send", "ack"}

\* C15 as claimed. Once quit is closed the error-returning ProcessBlock
\* returns nil, never an error.
C15_QuitReturnsNil ==
    [][\A c \in Consumers :
          (InProcessBlock(c) /\ quit[c] /\ pb'[c].pc = "returned") =>
              pb'[c].result = Nil]_vars

\* C15 as amended. Once quit is closed ProcessBlock has a ready case in
\* whichever select it is in; it returns nil, or, when the subsystem's ack
\* lies in the beat's channel as well, either nil or that ack.
C15_QuitReturnsNilOrAck ==
    [][\A c \in Consumers :
          (InProcessBlock(c) /\ quit[c]) =>
              /\ QuitReady(c)
              /\ pb'[c].pc = "returned" =>
                    \/ pb'[c].result = Nil
                    \/ /\ pb[c].pc = "ack"
                       /\ chanBuf[pb[c].beat.errChan] # <<>>
                       /\ pb'[c].result = Head(chanBuf[pb[c].beat.errChan])]_vars

\* ProcessBlock returned nil on quit after the subsystem had read the beat
\* and before it acknowledged.
C15_Witness ==
    \E c \in Consumers :
        /\ pb[c].pc = "returned"
        /\ pb[c].got = pb[c].beat
        /\ quit[c]
        /\ chanSent[pb[c].beat.errChan] = <<>>
        /\ pb[c].result = Nil

\* C16. With quit never closed the error-returning ProcessBlock returns only
\* after the subsystem received exactly the beat passed in and a value was
\* published on that beat's channel, and it returns that value.
C16_ReturnsPublishedAck ==
    \A c \in Consumers :
        (pb[c].pc = "returned" /\ ~quit[c]) =>
            /\ pb[c].got = pb[c].beat
            /\ held[c] = pb[c].beat
            /\ Height(pb[c].beat) \in seen[c]
            /\ Len(chanSent[pb[c].beat.errChan]) >= 1
            /\ pb[c].result = chanSent[pb[c].beat.errChan][1]
            /\ pb[c].result \in AckValues

\* ProcessBlock returned the error its subsystem published.
C16_Witness ==
    \E c \in Consumers :
        /\ pb[c].pc = "returned"
        /\ ~quit[c]
        /\ pb[c].result = ErrDummy

\* The first NotifyBlockProcessed on the beat of consumer c is in its select:
\* nothing was sent on the beat's channel before.
FirstAck(c) == nbp[c].pc = "select" /\ chanSent[held[c].errChan] = <<>>

\* C17. The first NotifyBlockProcessed on a fresh beat never blocks: its send
\* is ready whether or not anyone reads, and with quit nil or not closed the
\* call returns by the send, after which err is the one value in the channel.
C17_FirstAckNeverBlocks ==
    [][\A c \in Consumers :
          FirstAck(c) =>
              /\ CanSend(chanBuf[held[c].errChan])
              /\ (nbp'[c].pc = "returned" /\ ~(nbp[c].useQuit /\ quit[c])) =>
                    /\ nbp'[c].sent
                    /\ chanBuf'[held[c].errChan] = <<nbp[c].err>>
                    /\ chanSent'[held[c].errChan] = <<nbp[c].err>>]_vars

\* A first NotifyBlockProcessed(errDummy, nil) returned and its error lies in
\* the channel after ProcessBlock, the only reader, had already returned.
C17_Witness ==
    \E c \in Consumers :
        /\ pb[c].pc = "returned"
        /\ pb[c].result = Nil
        /\ nbp[c].pc = "returned" /\ nbp[c].calls = 1
        /\ ~nbp[c].useQuit /\ nbp[c].sent
        /\ chanBuf[held[c].errChan] = <<ErrDummy>>

\* C18. A NotifyBlockProcessed called while the beat's channel is full cannot
\* send; while the channel stays full it returns only once the quit channel
\* it was given is closed, and then the channel holds what it held before.
C18_FullChannelBlocksUntilQuit ==
    [][\A c \in Consumers :
          (nbp[c].pc = "select" /\ Len(chanBuf[held[c].errChan]) >= 1) =>
              /\ Len(chanBuf[held[c].errChan]) = 1
              /\ ~CanSend(chanBuf[held[c].errChan])
              /\ nbp'[c].pc = "returned" =>
                    /\ nbp[c].useQuit /\ quit[c]
                    /\ ~nbp'[c].sent
                    /\ chanBuf'[held[c].errChan] = chanBuf[held[c].errChan]
                    /\ chanSent'[held[c].errChan] = chanSent[held[c].errChan]]_vars

\* A second NotifyBlockProcessed returned on quit without sending: the first
\* acknowledgement is still the only value in the channel.
C18_Witness ==
    \E c \in Consumers :
        /\ nbp[c].pc = "returned" /\ nbp[c].calls = 2
        /\ ~nbp[c].sent
        /\ quit[c]
        /\ Len(chanBuf[held[c].errChan]) = 1
        /\ chanSent[held[c].errChan] = chanBuf[held[c].errChan]

\* C21. Queues are dispatched concurrently: while notifyQueues runs, every
\* queue has its own running dispatch, and a dispatch that is about to call or
\* hand the beat to its consumer can do so whatever the consumers of the other
\* queues have or have not acknowledged.
C21_QueuesConcurrent ==
    dpc = "notify" =>
        \A q \in DOMAIN task :
            /\ task[q].pc \in {"call", "send", "wait", "done"}
            /\ task[q].pc = "call" => ENABLED NotifyAndWait(q)
            /\ task[q].pc = "send" => ENABLED SendBeat(q)

\* The first consumer of queue 1 and the first consumer of queue 2 both hold
\* an un-acknowledged copy of the same beat.
C21_Witness ==
    /\ dpc = "notify"
    /\ Len(consumerQueues) = 2
    /\ \A q \in {1, 2} :
          /\ task[q].pc = "wait" /\ task[q].idx = 1
          /\ held[CurConsumer(q)] = task[q].copy
          /\ Height(task[q].copy) = Height(beat)
          /\ UnAcked(log[q][1])

\* C26. The helper writes on a beat's acknowledgement channel only on the
\* quit-before-send path, a single nil on the still empty channel; on the
\* channel of a beat that was handed to the subsystem every write is the
\* NotifyBlockProcessed of the subsystem that holds it.
C26_HelperWritesOnlyBeforeHandOff ==
    [][\A x \in Calls :
          LET e == log[x[1]][x[2]]
              ch == e.copy.errChan
          IN  chanSent'[ch] # chanSent[ch] =>
                 IF e.handed
                 THEN /\ held[e.consumer] = e.copy
                      /\ held'[e.consumer] = NoBeat
                 ELSE /\ quit[e.consumer]
                      /\ chanSent[ch] = <<>>
                      /\ chanSent'[ch] = <<Nil>>]_vars

\* Quit is closed, the beat was handed over, and the only value on its
\* channel is the error its subsystem published.
C26_Witness ==
    \E x \in Calls :
        LET e == log[x[1]][x[2]]
        IN  /\ e.handed
            /\ quit[e.consumer]
            /\ chanSent[e.copy.errChan] = <<ErrDummy>>
            /\ held[e.consumer] = NoBeat

\* C27. DispatchConcurrent over a list in which two consumers share a name
\* awaits both of them: it returns nil only when every consumer's
\* notifyAndWait has returned, and returned nil.
C27_SameNameSurfaced ==
    (dc.pc = "returned" /\ ~DistinctNames(dc.consumers) /\ dc.result = Nil) =>
        \A i \in DOMAIN task : task[i].pc = "done" /\ task[i].result = Nil

\* The direct dispatch call has returned nil.
ReturnedNil ==
    \/ dc.pc = "seq" /\ task[1].pc = "done" /\ task[1].result = Nil
    \/ dc.pc = "returned" /\ dc.result = Nil

\* C28. Within one DispatchSequential or DispatchConcurrent call no
\* consumer's ProcessBlock is invoked more than once, and when the call has
\* returned nil every consumer of the list had its ProcessBlock invoked
\* exactly once, with a copy of the dispatched beat.
C28_InvokedOnce ==
    /\ \A x, y \in Calls :
          x # y => log[x[1]][x[2]].consumer # log[y[1]][y[2]].consumer
    /\ ReturnedNil =>
          \A i \in 1..Len(dc.consumers) :
             \E x \in Calls :
                /\ log[x[1]][x[2]].consumer = dc.consumers[i]
                /\ log[x[1]][x[2]].copy.epoch = beat.epoch

\* The dispatch tasks that call ProcessBlock of consumer c in this step.
CallsNow(c) ==
    {w \in DOMAIN log \cap DOMAIN log' :
        /\ Len(log'[w]) = Len(log[w]) + 1
        /\ log'[w][Len(log'[w])].consumer = c}

\* C29. ProcessBlock records the beat before it attempts the hand-off: the
\* step that calls ProcessBlock(beat) on a consumer, of either helper, sets
\* its currentBeat to that beat, and no other step changes currentBeat, so
\* currentBeat is the beat of the most recent call whether or not the
\* subsystem received it.
C29_RecordsBeat ==
    [][\A c \in Consumers :
          /\ \A w \in CallsNow(c) :
                currentBeat'[c] = log'[w][Len(log'[w])].copy
          /\ (pb[c].pc = "idle" /\ pb'[c].pc # "idle") =>
                currentBeat'[c] = pb'[c].beat
          /\ (CallsNow(c) = {} /\ (pb[c].pc = "idle" => pb'[c].pc = "idle")) =>
                currentBeat'[c] = currentBeat[c]]_vars

\* The second block's call of a consumer was preempted by quit: its subsystem
\* saw the first block only, and currentBeat is the second block's copy.
C29_Witness ==
    \E x \in Calls :
        LET e == log[x[1]][x[2]]
        IN  /\ ~e.handed
            /\ task[x[1]].pc \in {"wait", "done"}
            /\ Height(e.copy) = 2
            /\ seen[e.consumer] = {1}
            /\ currentBeat[e.consumer] = e.copy

\* The positions <<t, i>> of the inputs of the block that spend the outpoint.
Spenders(block, outpoint) ==
    {x \in (1..Len(block)) \X (1..NumTxIns(block)) :
        /\ x[2] <= Len(block[x[1]])
        /\ block[x[1]][x[2]].PreviousOutPoint = outpoint}

\* Position x is the first of S in scan order: transactions in block order,
\* inputs in input order.
FirstOf(x, S) ==
    /\ x \in S
    /\ \A y \in S : x[1] < y[1] \/ (x[1] = y[1] /\ x[2] <= y[2])

\* The detail describes the input at position x of the scanned block.
Describes(detail, x) ==
    /\ detail.SpendingTx = x[1]
    /\ detail.SpenderTxHash = TxHash(scan.block[x[1]])
    /\ detail.SpenderInputIndex = x[2] - 1
    /\ detail.SpentOutPoint = scan.outpoint
    /\ detail.SpendingHeight = Height(beat)

\* C22. Outpoint-scan correctness: HasOutpointSpent(o) returns a detail if
\* and only if some input of some transaction of the block spends o, and the
\* detail then describes the first such input in scan order: its transaction,
\* its position, o and the beat's height.
C22_OutpointScan ==
    scan.fn = "HasOutpointSpent" =>
        LET S == Spenders(scan.block, scan.outpoint)
        IN  /\ scan.detail # NoDetail <=> S # {}
            /\ S # {} => \E x \in S : FirstOf(x, S) /\ Describes(scan.detail, x)

\* The outpoint is spent twice, first by the first input of the second
\* transaction, which is the one reported.
C22_Witness ==
    /\ scan.fn = "HasOutpointSpent"
    /\ Cardinality(Spenders(scan.block, scan.outpoint)) = 2
    /\ scan.detail.SpendingTx = 2
    /\ scan.detail.SpenderInputIndex = 0
    /\ scan.block[1][1].PreviousOutPoint # scan.outpoint

\* C23. Taproot skip: for a taproot pkScript HasOutpointSpentByScript returns
\* no error, the detail of the first input that spends o whatever that
\* input carries, and no detail when no input spends o.
C23_TaprootSkip ==
    (/\ scan.fn = "HasOutpointSpentByScript"
     /\ Class(scan.pkScript) = WitnessV1TaprootTy) =>
        LET S == Spenders(scan.block, scan.outpoint)
        IN  /\ scan.err = Nil
            /\ S = {} => scan.detail = NoDetail
            /\ S # {} => \E x \in S : FirstOf(x, S) /\ Describes(scan.detail, x)

\* A taproot query reports an input from which no script can be rebuilt,
\* the second spender of the outpoint in the block's only transaction.
C23_Witness ==
    /\ scan.fn = "HasOutpointSpentByScript"
    /\ scan.pkScript = "p2tr"
    /\ scan.detail # NoDetail
    /\ scan.block[1][1].Witness = "empty"
    /\ scan.detail.SpendingTx = 1 /\ scan.detail.SpenderInputIndex = 0
    /\ Cardinality(Spenders(scan.block, scan.outpoint)) = 2

\* C24. Script mismatch: for a pkScript that is not taproot, when the script
\* rebuilt from the first input that spends o differs from pkScript the call
\* returns no detail and an error that wraps ErrPkScriptMismatch, whatever
\* inputs follow; a detail is returned only for a first spender whose rebuilt
\* script equals pkScript.
C24_ScriptMismatch ==
    (/\ scan.fn = "HasOutpointSpentByScript"
     /\ Class(scan.pkScript) # WitnessV1TaprootTy) =>
        LET S == Spenders(scan.block, scan.outpoint)
            Rebuilt(x) == ComputePkScript(scan.block[x[1]][x[2]].Witness)
        IN  /\ \A x \in S :
                  (/\ FirstOf(x, S)
                   /\ Rebuilt(x).err = Nil
                   /\ Rebuilt(x).script # scan.pkScript) =>
                      /\ scan.detail = NoDetail
                      /\ ErrorsIs(scan.err, ErrPkScriptMismatch.cause)
            /\ scan.detail # NoDetail =>
                  /\ scan.err = Nil
                  /\ \E x \in S :
                        /\ FirstOf(x, S) /\ Describes(scan.detail, x)
                        /\ Rebuilt(x) = [script |-> scan.pkScript, err |-> Nil]

\* The first spender's script differs from the queried one and the call
\* returned the mismatch although a later input spends the outpoint with the
\* queried script.
C24_Witness ==
    /\ scan.fn = "HasOutpointSpentByScript"
    /\ scan.pkScript = "p2wkh"
    /\ ErrorsIs(scan.err, ErrPkScriptMismatch.cause)
    /\ scan.detail = NoDetail
    /\ \E x \in Spenders(scan.block, scan.outpoint) :
          ComputePkScript(scan.block[x[1]][x[2]].Witness).script = "p2wkh"

\* Sequence a is an initial part of sequence b.
IsPrefix(a, b) == Len(a) <= Len(b) /\ \A i \in 1..Len(a) : a[i] = b[i]

\* C25. beat.copy() has the height and the logger of the original and a
\* channel of its own: what was published on the original went to the
\* original's channel only and is what is read from it, and likewise for the
\* copy.
C25_CopyIndependent ==
    cp.copy # NoBeat =>
        /\ Height(cp.copy) = Height(beat)
        /\ cp.copy.log = beat.log
        /\ cp.copy.errChan # beat.errChan
        /\ chanSent[beat.errChan] = cp.pub.orig
        /\ chanSent[cp.copy.errChan] = cp.pub.copy
        /\ IsPrefix(cp.read.orig, cp.pub.orig)
        /\ IsPrefix(cp.read.copy, cp.pub.copy)

\* The original's channel was full when the copy was made; errDummy was read
\* from the original and nil from the copy.
C25_Witness ==
    /\ cp.copy # NoBeat
    /\ cp.full
    /\ cp.read.orig = <<ErrDummy>>
    /\ cp.read.copy = <<Nil>>

\* The direct dispatch call has returned and so has every notifyAndWait of
\* its goroutines.
Terminated ==
    /\ \/ dc.pc = "seq" /\ task[1].pc = "done"
       \/ dc.pc = "returned"
    /\ \A w \in DOMAIN task : task[w].pc = "done"

\* C30. Dispatch terminates: under the fair scheduling FairBeat, in which
\* every subsystem eventually reads its beat unless quit is taken first and
\* the timeout eventually fires, every call of DispatchSequential or
\* DispatchConcurrent eventually returns, and so does every notifyAndWait
\* it started.
C30_DispatchTerminates == (dc.pc # "none") ~> Terminated

\* DispatchConcurrent returned a timeout error after the subsystem of one
\* consumer read the beat and never acknowledged it, and every goroutine is
\* done.
C30_Witness ==
    /\ dc.pc = "returned"
    /\ Terminated
    /\ Len(dc.consumers) = 2
    /\ ErrorsIs(dc.result, "ErrProcessBlockTimeout")
    /\ \E c \in Consumers : held[c] # NoBeat

\* C31. The goroutines of DispatchConcurrent never block on their result:
\* each sends one value, the result of its notifyAndWait, on its own one-slot
\* channel, and is done as soon as notifyAndWait has returned, whether or not
\* DispatchConcurrent has returned.
C31_WorkersNeverBlock ==
    IsWorker =>
        \A w \in DOMAIN task :
            /\ task[w].pc # "blocked"
            /\ Len(chanSent[ResultChan(w)]) <= 1
            /\ task[w].pc = "done" <=>
                  chanSent[ResultChan(w)] = <<task[w].result>>
            /\ (log[w] # <<>> /\ log[w][1].result # Pending) =>
                  task[w].pc = "done"

\* DispatchConcurrent over two consumers of one name has returned; the
\* goroutine whose channel was replaced in the map is done and its result, a
\* timeout error, lies unread in its channel.
C31_Witness ==
    /\ dc.pc = "returned"
    /\ Len(dc.consumers) = 2
    /\ ~DistinctNames(dc.consumers)
    /\ task[1].pc = "done"
    /\ ErrorsIs(task[1].result, "ErrProcessBlockTimeout")
    /\ chanBuf[ResultChan(1)] = <<task[1].result>>

\* C32. Late acknowledgements are isolated: once notifyAndWait returned the
\* timeout error for a call, a NotifyBlockProcessed on the copy of that call
\* does not block, nothing published on that copy's channel is ever received,
\* and no other notifyAndWait call reads that channel.
C32_LateAckIsolated ==
    \A x \in Calls :
        LET e == log[x[1]][x[2]]
            ch == e.copy.errChan
        IN  ErrorsIs(e.result, "ErrProcessBlockTimeout") =>
               /\ chanBuf[ch] = chanSent[ch]
               /\ held[e.consumer] = e.copy =>
                     /\ CanSend(chanBuf[ch])
                     /\ \A err \in AckValues :
                           ENABLED NotifyBlockProcessed(e.consumer, err)
               /\ \A y \in Calls :
                     y # x => log[y[1]][y[2]].copy.errChan # ch

\* A consumer acknowledged errDummy after its call had timed out; the value
\* lies in the channel of its copy while another consumer's call has received
\* its own acknowledgement.
C32_Witness ==
    \E x, y \in Calls :
        LET e == log[x[1]][x[2]]
            f == log[y[1]][y[2]]
        IN  /\ x # y
            /\ ErrorsIs(e.result, "ErrProcessBlockTimeout")
            /\ held[e.consumer] = NoBeat
            /\ chanBuf[e.copy.errChan] = <<ErrDummy>>
            /\ f.recv = Nil

\* C33. HasOutpointSpentByScript agrees with HasOutpointSpent on the same
\* block and outpoint: it returns (nil, nil) exactly when HasOutpointSpent
\* returns nil, and a detail it returns is the one HasOutpointSpent returns.
C33_ScansAgree ==
    scan.fn = "HasOutpointSpentByScript" =>
        LET d == HasOutpointSpent(scan.block, Height(beat), scan.outpoint)
        IN  /\ (scan.detail = NoDetail /\ scan.err = Nil) <=> d = NoDetail
            /\ scan.detail # NoDetail => scan.detail = d

\* A query by a script that is not taproot reports the second input of the
\* second transaction, and the inputs before it do not spend the outpoint.
C33_Witness ==
    /\ scan.fn = "HasOutpointSpentByScript"
    /\ scan.pkScript = "p2wsh"
    /\ scan.detail.SpendingTx = 2
    /\ scan.detail.SpenderInputIndex = 1
    /\ scan.detail =
          HasOutpointSpent(scan.block, Height(beat), scan.outpoint)

\* The transition is a success that emits nothing.
Silent(t) ==
    /\ t.err = NilErr
    /\ ~t.NewEvents.IsSome
    /\ t.NewEvents.InternalEvent = <<>>
    /\ t.NewEvents.ExternalEvents = <<>>

\* The transition a SpendEvent of transaction tx must give.
SpendResult(t, tx) ==
    /\ Silent(t)
    /\ t.NextState.name = "CloseFin"
    /\ t.NextState.ConfirmedTx = tx

\* The ClosePending sub-states of the state c.
ClosePendings(c) ==
    IF c.name # "ClosingNegotiation" THEN {}
    ELSE {l \in {c.PeerState.LocalState, c.PeerState.RemoteState} :
            l.name = "ClosePending"}

\* C34: from ChannelActive, ShutdownPending, ChannelFlushing,
\* ClosingNegotiation and ClosePending, whatever the state holds and whatever
\* the environment answers, a SpendEvent succeeds, gives CloseFin with
\* ConfirmedTx the event's transaction and emits no event; the machine that
\* processed one is in that CloseFin.
C34_SpendMovesToCloseFin ==
    /\ fsm.cur.name \in {"ChannelActive", "ShutdownPending", "ChannelFlushing",
                         "ClosingNegotiation"}
         => \A tx \in Txs : \A o \in Outcomes(fsm.cur) :
               SpendResult(ProcessEvent(fsm.cur, SpendEvent(tx), fsm.env, o),
                           tx)
    /\ \A l \in ClosePendings(fsm.cur) : \A tx \in Txs :
          \A o \in Outcomes(fsm.cur) :
             SpendResult(ClosePendingProcessEvent(l, SpendEvent(tx), fsm.env,
                                                  o), tx)
    /\ (fsm.event.type = "SpendEvent" /\ fsm.from.name # "CloseFin")
         => /\ SpendResult(fsm.res, fsm.event.Tx)
            /\ fsm.cur = fsm.res.NextState

C34_Witness ==
    /\ fsm.from.name = "ClosingNegotiation"
    /\ fsm.from.PeerState.LocalState.name = "ClosePending"
    /\ fsm.event = SpendEvent("tx2")
    /\ fsm.cur.name = "CloseFin"
    /\ fsm.cur.ConfirmedTx = "tx2"

\* C35: CloseFin is absorbing: for every event it returns itself with no
\* error and no emitted event, and the machine that processed an event in
\* CloseFin is in the same CloseFin.
C35_CloseFinAbsorbing ==
    /\ fsm.cur.name = "CloseFin"
         => \A event \in ProtocolEvents : \A o \in Outcomes(fsm.cur) :
               LET t == ProcessEvent(fsm.cur, event, fsm.env, o)
               IN  Silent(t) /\ t.NextState = fsm.cur
    /\ fsm.from.name = "CloseFin"
         => Silent(fsm.res) /\ fsm.cur = fsm.from /\ fsm.queue = <<>>

C35_Witness ==
    /\ fsm.from.name = "CloseFin"
    /\ fsm.from.ConfirmedTx = "tx1"
    /\ fsm.event.type = "SendShutdown"
    /\ fsm.cur = fsm.from

\* The machine processed an accepted shutdown event in ChannelActive.
ShutdownAccepted ==
    /\ fsm.from.name = "ChannelActive"
    /\ fsm.event.type \in {"SendShutdown", "ShutdownReceived"}
    /\ fsm.res.err = NilErr

Restart(t, event) ==
    /\ t.err = NilErr
    /\ t.NextState = [name |-> "ChannelActive"]
    /\ t.NewEvents.IsSome
    /\ t.NewEvents.InternalEvent = <<event>>
    /\ t.NewEvents.ExternalEvents = <<>>

\* C37: in ClosingNegotiation, whatever the two sub-states are and whichever
\* of them would accept the event, a ShutdownReceived or SendShutdown gives a
\* fresh ChannelActive and that same event as the single internal event; the
\* machine that processed one is in ChannelActive with exactly that event
\* pending.
C37_ShutdownRestarts ==
    /\ fsm.cur.name = "ClosingNegotiation"
         => \A event \in ProtocolEvents : \A o \in Outcomes(fsm.cur) :
               event.type \in {"ShutdownReceived", "SendShutdown"}
                 => Restart(ProcessEvent(fsm.cur, event, fsm.env, o), event)
    /\ (fsm.from.name = "ClosingNegotiation"
          /\ fsm.event.type \in {"ShutdownReceived", "SendShutdown"})
         => /\ Restart(fsm.res, fsm.event)
            /\ fsm.cur = [name |-> "ChannelActive"]
            /\ fsm.queue = <<fsm.event>>

C37_Witness ==
    /\ fsm.from.name = "ClosingNegotiation"
    /\ fsm.from.PeerState.LocalState.name = "LocalOfferSent"
    /\ fsm.from.PeerState.RemoteState.name = "ClosePending"
    /\ fsm.event.type = "SendShutdown"
    /\ fsm.cur.name = "ChannelActive"
    /\ fsm.queue = <<fsm.event>>

\* The event types a state's ProcessEvent has a case for.
Defines(name) ==
    CASE name = "ChannelActive" ->
           {"SpendEvent", "SendShutdown", "ShutdownReceived"}
      [] name = "ShutdownPending" ->
           {"SpendEvent", "ShutdownReceived", "ShutdownComplete"}
      [] name = "ChannelFlushing" ->
           {"SpendEvent", "OfferReceivedEvent", "ChannelFlushed"}
      [] name = "LocalCloseStart" -> {"SendOfferEvent"}
      [] name = "LocalOfferSent" -> {"LocalSigReceived"}
      [] name = "RemoteCloseStart" -> {"OfferReceivedEvent"}

\* The (nil, err) return of an undefined transition.
Undefined(t) ==
    /\ t.err.is = ErrInvalidStateTransition
    /\ t.NextState = NilState
    /\ t.NewEvents = NoEvents

\* The sub-states of the negotiation that reject events.
RejectingPeers(c) ==
    IF c.name # "ClosingNegotiation" THEN {}
    ELSE {l \in {c.PeerState.LocalState, c.PeerState.RemoteState} :
            l.name \in {"LocalCloseStart", "LocalOfferSent",
                        "RemoteCloseStart"}}

Flushed ==
    /\ fsm.from.name = "ChannelFlushing"
    /\ fsm.event.type = "ChannelFlushed"

\* C39 as stated: the ChannelFlushed event that follows always moves the
\* machine to ClosingNegotiation.
C39_FlushedAlwaysNegotiates ==
    Flushed => fsm.cur.name = "ClosingNegotiation"

\* The transition of ChannelFlushed in the state c when it succeeds: both
\* sub-states start with the same close terms, the internal events are the
\* stashed offer (if any) and then a SendOfferEvent (if the local balance can
\* pay), and nothing is emitted when there is neither.
Negotiates(t, c, event, canPay) ==
    LET closeTerms == [ShutdownScripts |-> c.ShutdownScripts,
                       ShutdownBalances |-> event.ShutdownBalances]
        stashed == c.EarlyRemoteOffer # NoEvent
        evs == t.NewEvents.InternalEvent
    IN  /\ t.err = NilErr
        /\ t.NextState.name = "ClosingNegotiation"
        /\ t.NextState.PeerState.LocalState
             = [name |-> "LocalCloseStart", CloseChannelTerms |-> closeTerms]
        /\ t.NextState.PeerState.RemoteState
             = [name |-> "RemoteCloseStart", CloseChannelTerms |-> closeTerms]
        /\ Len(evs) = (IF stashed THEN 1 ELSE 0) + (IF canPay THEN 1 ELSE 0)
        /\ stashed => evs[1] = c.EarlyRemoteOffer
        /\ canPay => evs[Len(evs)].type = "SendOfferEvent"
        /\ t.NewEvents.IsSome <=> Len(evs) > 0
        /\ t.NewEvents.ExternalEvents = <<>>

\* C39 amended: an OfferReceivedEvent in ChannelFlushing is stashed, replacing
\* an earlier one, and the state stays ChannelFlushing; a ChannelFlushed event
\* then moves the machine to ClosingNegotiation with the stashed offer first
\* and a SendOfferEvent second (only if the local balance can pay), unless the
\* flush is fresh and MarkCoopBroadcasted fails: then the error is returned,
\* nothing is emitted and the machine stays in ChannelFlushing.
C39_StashThenFlush ==
    /\ fsm.cur.name = "ChannelFlushing"
         => \A event \in ProtocolEvents : \A o \in Outcomes(fsm.cur) :
               LET t == ProcessEvent(fsm.cur, event, fsm.env, o)
               IN  /\ event.type = "OfferReceivedEvent"
                        => /\ Silent(t)
                           /\ t.NextState
                                = [fsm.cur EXCEPT !.EarlyRemoteOffer = event]
                   /\ event.type = "ChannelFlushed"
                        => IF event.FreshFlush
                              /\ o.fail = "MarkCoopBroadcasted"
                           THEN /\ t.err # NilErr
                                /\ t.NextState = NilState
                                /\ t.NewEvents = NoEvents
                           ELSE Negotiates(t, fsm.cur, event, o.canPay)
    /\ (fsm.from.name = "ChannelFlushing"
          /\ fsm.event.type = "OfferReceivedEvent")
         => /\ fsm.cur.name = "ChannelFlushing"
            /\ fsm.cur.EarlyRemoteOffer = fsm.event
    /\ Flushed
         => IF fsm.res.err = NilErr
            THEN /\ fsm.cur.name = "ClosingNegotiation"
                 /\ fsm.from.EarlyRemoteOffer # NoEvent
                      => Head(fsm.res.NewEvents.InternalEvent)
                           = fsm.from.EarlyRemoteOffer
            ELSE fsm.event.FreshFlush /\ fsm.cur = fsm.from

C39_Witness ==
    /\ Flushed
    /\ fsm.from.EarlyRemoteOffer # NoEvent
    /\ fsm.cur.name = "ClosingNegotiation"
    /\ Len(fsm.res.NewEvents.InternalEvent) = 2
    /\ fsm.res.NewEvents.InternalEvent[1] = fsm.from.EarlyRemoteOffer
    /\ fsm.res.NewEvents.InternalEvent[2].type = "SendOfferEvent"

====
